---- MODULE Spec2Model ----
(***************************************************************************)
(* Model of the bank-statement extraction pipeline: parsers.py,            *)
(* mistral_parser.py, ocr_utils.py and the upload handlers of              *)
(* backend-main.py.                                                        *)
(*                                                                         *)
(* Python strings are TLA+ strings; a character is a string of length 1.   *)
(* The characters are those from U+0001 to U+00FF.  A string here cannot   *)
(* hold a grave accent, which is written as the tilde; the tilde itself is *)
(* therefore not among the characters.  Where an operation gives a         *)
(* character outside them, the text holds "?" in its place.                *)
(* A str that json.loads has built may hold any code point: it is the      *)
(* sequence of its code points, and so are the dates and labels of the     *)
(* transactions of the language-model tier.                                *)
(* Optional[str] is a tuple: <<>> is None, <<s>> is the string s.          *)
(* A float is the string repr() prints for it (12.5 is "12.5").            *)
(***************************************************************************)
EXTENDS Integers, Sequences, FiniteSets, TLC

VARIABLES
    nd_parts,   \* _normalize_date harness: the day, month, year texts and padding
    nd_in,      \* the date_str arguments, one per written format
    nd_out,     \* _normalize_date(nd_in[f]) per format
    nd_again,   \* _normalize_date applied to each non-null result
    nd_pc

dateVars == <<nd_parts, nd_in, nd_out, nd_again, nd_pc>>

VARIABLES
    lp_kind,    \* layout-parser harness: which parser runs ("CA", "BP", "LCL")
    lp_parts,   \* the tokens each input line was written from
    lp_lines,   \* the lines argument
    lp_i,       \* loop position (0-based index of the next line)
    lp_tx,      \* the transactions list
    lp_src,     \* per transaction, the 0-based positions of the lines it was read from
    lp_ctx,     \* extract_lcl_transactions: annee, mois_num, transaction_lines
    lp_pc

layoutVars == <<lp_kind, lp_parts, lp_lines, lp_i, lp_tx, lp_src, lp_ctx, lp_pc>>

VARIABLES
    mi_reply,    \* extract_with_mistral harness: how the reply was written
    mi_env,      \* MISTRAL_API_KEY set or not, the call's outcome, the content
    mi_raw,      \* transactions_raw
    mi_idx,      \* number of items the validation loop has passed
    mi_tx,       \* transactions
    mi_rejected, \* rejected_count
    mi_ret,      \* <<>> before the return, <<list>> after it
    mi_raised,   \* an exception left extract_with_mistral
    mi_pc

mistralVars == <<mi_reply, mi_env, mi_raw, mi_idx, mi_tx, mi_rejected, mi_ret,
                 mi_raised, mi_pc>>

VARIABLES
    px_entry,    \* the handler that received the file: "upload" or "guest"
    px_doc,      \* the uploaded document
    px_ocr,      \* what optical recognition does on this document
    px_llm,      \* the language-model environment (key, call outcome, reply)
    px_fault,    \* the layout parser raises
    px_val,      \* upload_pdf: <<>> or <<what extract_text_from_pdf and the validator gave>>
    px_log,      \* upload_pdf: the failed-conversion commit and the alert, in order
    px_text,     \* extract_from_pdf: text
    px_stages,   \* the stages extract_from_pdf has run, in order
    px_mi,       \* <<>> or <<what extract_with_mistral returned or raised>>
    px_hint,     \* <<>> or <<the bank_hint given to extract_with_mistral>>
    px_re,       \* <<>> or <<bank_type and list of the layout-parser tier>>
    px_ret,      \* <<>> or <<what extract_from_pdf returned>>
    px_resp,     \* "" or the handler's response
    px_calls,    \* extract_from_pdf: the calls made of recognition and of the completion
    px_pc

pipeVars == <<px_entry, px_doc, px_ocr, px_llm, px_fault, px_val, px_log,
              px_text, px_stages, px_mi, px_hint, px_re, px_ret, px_resp,
              px_calls, px_pc>>

VARIABLES
    ex_parts,   \* generate_excel harness: the date components of each row
    ex_in,      \* the transactions argument
    ex_out,     \* <<>> for None, <<rows>> for the rows written to the sheet
    ex_pc

excelVars == <<ex_parts, ex_in, ex_out, ex_pc>>

VARIABLES
    sc_parts,   \* is_scanned_pdf harness: the block each page is written from
    sc_doc,     \* the document (opens, page texts)
    sc_out,     \* <<>> before the call, <<BOOLEAN>> after it
    sc_pc

scanVars == <<sc_parts, sc_doc, sc_out, sc_pc>>

VARIABLES
    bk_parts,   \* detect_bank_format harness: the fragments the text is made of
    bk_text,    \* the text argument
    bk_out,     \* "" before the call, the bank code after it
    bk_pc

bankVars == <<bk_parts, bk_text, bk_out, bk_pc>>

VARIABLES
    oc_scan,    \* extract_text_from_scanned_pdf harness: what each stage does on the document
    oc_i,       \* number of pages the for loop has passed
    oc_seen,    \* the images handed to pytesseract.image_to_string, in order
    oc_texts,   \* extracted_texts
    oc_ret,     \* <<>> before the end, <<what was returned or raised>> after it
    oc_pc

ocrVars == <<oc_scan, oc_i, oc_seen, oc_texts, oc_ret, oc_pc>>

VARIABLES
    gu_unique,  \* upload_pdf_guest: the table refuses a second row for one address
    gu_req,     \* the requests of one address: position, document, local values, response
    gu_rows     \* number of committed GuestConversion rows of the address

guestVars == <<gu_unique, gu_req, gu_rows>>

VARIABLES
    us_tier,    \* upload_pdf: subscription_tier in the row of the user
    us_hist,    \* the values subscription_tier has had, the first one first
    us_count,   \* <<>> without a UsageLog row of the month, <<uploads_count>> with one
    us_failed,  \* number of committed FailedConversion rows
    us_req,     \* the request that is running: document, local values, calls made
    us_susp,    \* the requests suspended at an await, each with the place
    us_done,    \* per answered request: document, local values, response
    us_pc       \* where the running request is, "wait" when none is running

usageVars == <<us_tier, us_hist, us_count, us_failed, us_req, us_susp, us_done, us_pc>>

vars == <<dateVars, layoutVars, mistralVars, pipeVars, excelVars, scanVars,
          bankVars, ocrVars, guestVars, usageVars>>

\* what each component's steps leave alone
notDate == <<layoutVars, mistralVars, pipeVars, excelVars, scanVars, bankVars,
    ocrVars, guestVars, usageVars>>
notLayout == <<dateVars, mistralVars, pipeVars, excelVars, scanVars, bankVars,
    ocrVars, guestVars, usageVars>>
notMistral == <<dateVars, layoutVars, pipeVars, excelVars, scanVars, bankVars,
    ocrVars, guestVars, usageVars>>
notPipe == <<dateVars, layoutVars, mistralVars, excelVars, scanVars, bankVars,
    ocrVars, guestVars, usageVars>>
notExcel == <<dateVars, layoutVars, mistralVars, pipeVars, scanVars, bankVars,
    ocrVars, guestVars, usageVars>>
notScan == <<dateVars, layoutVars, mistralVars, pipeVars, excelVars, bankVars,
    ocrVars, guestVars, usageVars>>
notBank == <<dateVars, layoutVars, mistralVars, pipeVars, excelVars, scanVars,
    ocrVars, guestVars, usageVars>>
notOcr == <<dateVars, layoutVars, mistralVars, pipeVars, excelVars, scanVars,
    bankVars, guestVars, usageVars>>
notGuest == <<dateVars, layoutVars, mistralVars, pipeVars, excelVars, scanVars,
    bankVars, ocrVars, usageVars>>
notUsage == <<dateVars, layoutVars, mistralVars, pipeVars, excelVars, scanVars,
    bankVars, ocrVars, guestVars>>

ExcelIdle == ex_parts = <<>> /\ ex_in = <<>> /\ ex_out = <<>> /\ ex_pc = "idle"

ScanIdle == sc_parts = <<>> /\ sc_doc = <<>> /\ sc_out = <<>> /\ sc_pc = "idle"

BankIdle == bk_parts = <<>> /\ bk_text = "" /\ bk_out = "" /\ bk_pc = "idle"

OcrIdle ==
    /\ oc_scan = <<>> /\ oc_i = 0 /\ oc_seen = <<>> /\ oc_texts = <<>>
    /\ oc_ret = <<>> /\ oc_pc = "idle"

GuestIdle == gu_unique = FALSE /\ gu_req = <<>> /\ gu_rows = 0

UsageIdle ==
    /\ us_tier = "" /\ us_hist = <<>> /\ us_count = <<>> /\ us_failed = 0
    /\ us_req = <<>> /\ us_susp = <<>> /\ us_done = <<>>
    /\ us_pc = "idle"

\* the handlers' bookkeeping and the optical-recognition harness at rest
SideIdle == OcrIdle /\ GuestIdle /\ UsageIdle

\* the harnesses of generate_excel, is_scanned_pdf and detect_bank_format at rest
AuxIdle == ExcelIdle /\ ScanIdle /\ BankIdle /\ SideIdle

\* the inputs of one request
pipeInputs == <<px_entry, px_doc, px_ocr, px_llm, px_fault>>

(***************************************************************************)
(* Python string primitives                                                *)
(***************************************************************************)

\* s[i-1] in Python: the i-th character (1-based)
At(s, i) == SubSeq(s, i, i)

\* the characters of a string, as a set
CharsOf(s) == {At(s, k) : k \in 1..Len(s)}

\* s[a:b] in Python for 0 <= a, with Python's clamping (a, b are 0-based)
Slice(s, a, b) ==
    LET hi == IF b > Len(s) THEN Len(s) ELSE b
    IN  IF a >= hi THEN "" ELSE SubSeq(s, a + 1, hi)

Digits == {"0", "1", "2", "3", "4", "5", "6", "7", "8", "9"}

\* \d, which up to U+00FF matches the digits 0 to 9 only
IsDigit(c) == c \in Digits

\* str.isspace(), which str.strip() and the class \s go by: the blank,
\* \t \n \v \f \r, U+001C..U+001F, U+0085 and U+00A0
IsSpace(c) ==
    c \in {" ", "\t", "\n", "", "\f", "\r",
           "", "", "", "", "", " "}

DigitVal(c) ==
    CASE c = "0" -> 0 [] c = "1" -> 1 [] c = "2" -> 2 [] c = "3" -> 3
      [] c = "4" -> 4 [] c = "5" -> 5 [] c = "6" -> 6 [] c = "7" -> 7
      [] c = "8" -> 8 [] c = "9" -> 9

RECURSIVE ToInt(_)
\* int(s) for a non-empty string of digits
ToInt(s) ==
    IF Len(s) = 0 THEN 0
    ELSE 10 * ToInt(SubSeq(s, 1, Len(s) - 1)) + DigitVal(At(s, Len(s)))

AllDigits(s) == \A i \in 1..Len(s) : IsDigit(At(s, i))

\* the least element of a non-empty set of integers
Least(S) == CHOOSE x \in S : \A y \in S : x <= y

\* the greatest element of a non-empty set of integers
Greatest(S) == 0 - Least({0 - x : x \in S})

\* the element of a one-element set.  Pick({e : x \in {v}}) is the value of
\* LET x == v IN e with v evaluated once, however often e mentions x.
Pick(S) == CHOOSE x \in S : TRUE

\* the 1-based positions of the characters of s that are not whitespace
NonSpace(s) == {i \in 1..Len(s) : ~IsSpace(At(s, i))}

LStrip(s) ==
    IF NonSpace(s) = {} THEN "" ELSE SubSeq(s, Least(NonSpace(s)), Len(s))

RStrip(s) ==
    IF NonSpace(s) = {} THEN ""
    ELSE SubSeq(s, 1, Greatest(NonSpace(s)))

\* str.strip()
Strip(s) == RStrip(LStrip(s))

\* sub in s
Contains(s, sub) ==
    \E i \in 0..(Len(s) - Len(sub)) : SubSeq(s, i + 1, i + Len(sub)) = sub

\* str.replace(old, new) for a one-character old
RECURSIVE ReplaceChar(_, _, _)
ReplaceChar(s, old, new) ==
    IF Len(s) = 0 THEN ""
    ELSE IF Len(s) = 1 THEN (IF s = old THEN new ELSE s)
    ELSE ReplaceChar(SubSeq(s, 1, Len(s) \div 2), old, new)
         \o ReplaceChar(SubSeq(s, (Len(s) \div 2) + 1, Len(s)), old, new)

NoneVal == <<>>
Some(s) == <<s>>

\* the small letters among the first 256 characters whose capital is one of
\* them too, and those capitals in the same order
LowerLetters == "abcdefghijklmnopqrstuvwxyzàáâãäåæçèéêëìíîïðñòóôõöøùúûüýþ"
UpperLetters == "ABCDEFGHIJKLMNOPQRSTUVWXYZÀÁÂÃÄÅÆÇÈÉÊËÌÍÎÏÐÑÒÓÔÕÖØÙÚÛÜÝÞ"

\* c.upper() for one character: a string, for the capital of ß is SS.  The
\* capitals of ÿ and µ (U+0178 and U+039C) are outside the characters.
UpperChar(c) ==
    LET hits == {k \in 1..Len(LowerLetters) : At(LowerLetters, k) = c}
    IN  IF c = "ß" THEN "SS"
        ELSE IF c \in {"ÿ", "µ"} THEN "?"
        ELSE IF hits = {} THEN c
        ELSE At(UpperLetters, CHOOSE k \in hits : TRUE)

RECURSIVE Upper(_)
\* str.upper()
Upper(s) ==
    IF Len(s) = 0 THEN ""
    ELSE IF Len(s) = 1 THEN UpperChar(s)
    ELSE Upper(SubSeq(s, 1, Len(s) \div 2))
         \o Upper(SubSeq(s, Len(s) \div 2 + 1, Len(s)))

\* str.zfill(2)
ZFill2(s) == IF Len(s) < 2 THEN "0" \o s ELSE s

\* the character at 0-based offset i, "" outside the string
Ch(s, i) == IF i >= 0 /\ i < Len(s) THEN SubSeq(s, i + 1, i + 1) ELSE ""

\* the number of consecutive digits from 0-based offset i
DigitRun(s, i) ==
    IF ~IsDigit(Ch(s, i)) THEN 0
    ELSE Pick({ IF stops = {} THEN Len(s) - i ELSE Least(stops) - i
                : stops \in {{j \in (i + 1)..(Len(s) - 1) : ~IsDigit(Ch(s, j))}} })

\* any(k in line for k in keywords)
AnyKeyword(line, keywords) == \E k \in keywords : Contains(line, k)

(***************************************************************************)
(* Natural numbers of any size, which the rounding of a decimal text to a  *)
(* float needs.  A number is the sequence of its digits in base 1000, the  *)
(* lowest first; it may have zeros at its top.                             *)
(***************************************************************************)

Base == 1000

RECURSIVE Repeat(_, _)
\* c * n for a character c
Repeat(c, n) ==
    IF n <= 0 THEN ""
    ELSE IF n = 1 THEN c
    ELSE Repeat(c, n \div 2) \o Repeat(c, n - (n \div 2))

\* "0" * n
Zeros(n) == Repeat("0", n)

\* the positions of the digits of d that are not 0
NonZero(d) == {k \in 1..Len(d) : At(d, k) # "0"}

\* the digit of a at place i, 0 beyond its length
Limb(a, i) == IF i >= 1 /\ i <= Len(a) THEN a[i] ELSE 0

\* int(d) for a string of digits
BigOfDigits(d) ==
    [k \in 1..((Len(d) + 2) \div 3) |->
       ToInt(SubSeq(d, IF Len(d) - 3 * k + 1 < 1 THEN 1 ELSE Len(d) - 3 * k + 1,
                    Len(d) - 3 * (k - 1)))] \o <<>>

RECURSIVE LimbDigits(_, _, _)
\* the digits a[hi] .. a[lo], three decimal digits each
LimbDigits(a, lo, hi) ==
    IF lo = hi THEN Zeros(3 - Len(ToString(a[lo]))) \o ToString(a[lo])
    ELSE LimbDigits(a, ((lo + hi) \div 2) + 1, hi) \o LimbDigits(a, lo, (lo + hi) \div 2)

\* str(a0)
BigDigits(a0) ==
    Pick({ IF Len(a) = 0 \/ NonZero(LimbDigits(a, 1, Len(a))) = {} THEN "0"
           ELSE Pick({ SubSeq(s, Least(NonZero(s)), Len(s))
                       : s \in {LimbDigits(a, 1, Len(a))} })
           : a \in {a0} })

\* The columns x, each a natural number below 2^31, stand for the sum of
\* x[i] * Base^(i - 1).  Passing on what each column has above Base, twice,
\* leaves columns of at most Base + 3 that stand for the same number.
ColumnOnce(x, i) ==
    (Limb(x, i) % Base) + ((Limb(x, i - 1) \div Base) % Base)
    + (Limb(x, i - 2) \div (Base * Base))

ColumnTwice(x, i) == (ColumnOnce(x, i) % Base) + (ColumnOnce(x, i - 1) \div Base)

\* the carry into place i of such columns z, 0 or 1: a column below passes
\* one up, and those between it and i are all at Base - 1
CarryIn(z, i) ==
    IF \E j \in 1..(i - 1) : z[j] >= Base /\ \A k \in (j + 1)..(i - 1) : z[k] = Base - 1
    THEN 1 ELSE 0

\* the number that the columns x0 stand for
Resolve(x0) ==
    Pick({ Pick({ [i \in 1..Len(z) |-> (z[i] + CarryIn(z, i)) % Base] \o <<>>
                  : z \in {[i \in 1..(Len(x) + 3) |-> ColumnTwice(x, i)] \o <<>>} })
           : x \in {x0 \o <<>>} })

\* a * k + c for k up to 2^21 and c below Base
BigMulAdd(a, k, c) ==
    Resolve([i \in 1..(IF Len(a) = 0 THEN 1 ELSE Len(a)) |->
               Limb(a, i) * k + (IF i = 1 THEN c ELSE 0)])

RECURSIVE SumProducts(_, _, _, _, _)
\* the sum of a[j] * b[i + 1 - j] for j from lo to hi
SumProducts(a, b, i, lo, hi) ==
    IF lo > hi THEN 0
    ELSE IF lo = hi THEN a[lo] * b[i + 1 - lo]
    ELSE SumProducts(a, b, i, lo, (lo + hi) \div 2)
         + SumProducts(a, b, i, ((lo + hi) \div 2) + 1, hi)

\* a0 * b0
BigMul(a0, b0) ==
    Pick({ IF Len(a) = 0 \/ Len(b) = 0 THEN <<>>
           ELSE Resolve([i \in 1..(Len(a) + Len(b) - 1) |->
                           SumProducts(a, b, i,
                                       IF i + 1 - Len(b) > 1 THEN i + 1 - Len(b) ELSE 1,
                                       IF i < Len(a) THEN i ELSE Len(a))])
           : a \in {a0}, b \in {b0} })

RECURSIVE BigProduct(_, _, _)
\* the product of the numbers f[lo] to f[hi]
BigProduct(f, lo, hi) ==
    IF lo = hi THEN f[lo]
    ELSE BigMul(BigProduct(f, lo, (lo + hi) \div 2),
                BigProduct(f, ((lo + hi) \div 2) + 1, hi))

\* 2^(2^j) for j from 3 to 10
PowersOfTwo ==
    <<"256",
      "65536",
      "4294967296",
      "18446744073709551616",
      "340282366920938463463374607431768211456",
      "115792089237316195423570985008687907853269984665640564039457"
      \o "584007913129639936",
      "134078079299425970995740249982058461274793658205923933777235"
      \o "614437217640300735469768018742981669034276900318581864860508"
      \o "53753882811946569946433649006084096",
      "179769313486231590772930519078902473361797697894230657273430"
      \o "081157732675805500963132708477322407536021120113879871393357"
      \o "658789768814416622492847430639474124377767893424865485276302"
      \o "219601246094119453082952085005768838150682342462881473913110"
      \o "540827237163350510684586298239947245938479716304835356329624"
      \o "224137216">>

\* 5^(2^j) for j from 3 to 10
PowersOfFive ==
    <<"390625",
      "152587890625",
      "23283064365386962890625",
      "542101086242752217003726400434970855712890625",
      "293873587705571876992184134305561419454666389193021880377187"
      \o "926569604314863681793212890625",
      "863616855509444462538635186280039957111600036443628138502370"
      \o "347016859180316242705797150750347228822656054729394614966359"
      \o "69950989468319466936530037770580747746862471103668212890625",
      "745834073120020674329096531546293383737647153460040689427151"
      \o "833320627838507011830493617489040042780336151160325583610145"
      \o "341272809522530266048616482959208469148126079231878137749520"
      \o "407426643526294144655436506391476541421726058850712003168682"
      \o "300322274229756369926535021533720605833651662864600361292743"
      \o "3551846968657326499008153319891789578832685947418212890625",
      "556268464626800345772558179333101016054803995115582957638331"
      \o "854221801108703479548963570789753127755141016834932758952751"
      \o "288108540388365027214003096344429705282694498383000582619902"
      \o "536860645909017980391261735625933552093812701662654164539737"
      \o "180122794992147909912125158977192529576218699945221938437487"
      \o "362895112901262728849964145617704661278384483951248028995271"
      \o "441512998108338028588097537198924902397822222900748160377765"
      \o "866578348415869396628257342940511831407945371416087718030707"
      \o "159410511211702851903477869265700422463311027506040361855404"
      \o "641791537635038571271179188225475790330694724182426843280833"
      \o "521747245793766959711731523193494493214664913735272842273851"
      \o "53411689217559966957882267024615430273115634918212890625">>

\* k^n for k = 2 or 5 and n below 2048: the product of the k^(2^j) for the
\* binary digits j of n that are 1, those below 3 taken together
BigPow(k, n) ==
    Pick({ BigProduct(f, 1, 8)
           : f \in {[j \in 1..8 |->
                       IF (n \div 2^(j + 2)) % 2 = 1
                       THEN BigMulAdd(BigOfDigits((IF k = 2 THEN PowersOfTwo
                                                   ELSE PowersOfFive)[j]),
                                      IF j = 1 THEN k^(n % 8) ELSE 1, 0)
                       ELSE <<(IF j = 1 THEN k^(n % 8) ELSE 1)>>] \o <<>>} })

(***************************************************************************)
(* Python floats.  A float is written as repr() prints it: "12.5", "-0.0", *)
(* "1e+16", "inf", "nan".  float() rounds a decimal text to the nearest    *)
(* double, to the even one of two that are as near, and repr() prints the  *)
(* shortest decimal text that float() reads back as that double, the       *)
(* nearest to it when several are as short.  A double is q * 2^e with      *)
(* q < 2^53 and e >= -1074; the greatest is (2^53 - 1) * 2^971.  Here q is *)
(* a string of digits.  Dividing by 2^n is multiplying by 5^n and moving   *)
(* the point n places, so that no division is needed.                      *)
(***************************************************************************)

Two52 == "4503599627370496"
Two53 == "9007199254740992"

\* -1, 0 or 1 as x is below, at or above y, two strings of as many digits
DigitsCmp(x, y) ==
    Pick({ IF d = {} THEN 0
           ELSE IF DigitVal(At(x, Least(d))) < DigitVal(At(y, Least(d))) THEN 0 - 1 ELSE 1
           : d \in {{k \in 1..Len(x) : At(x, k) # At(y, k)}} })

\* whether the number x is y or more, two strings of digits without zeros
\* in front
DigitsReach(x, y) ==
    Len(x) > Len(y) \/ (Len(x) = Len(y) /\ DigitsCmp(x, y) >= 0)

\* a string of digits that are not all 9, plus one
DigitsNext(pre) ==
    Pick({ SubSeq(pre, 1, j - 1) \o ToString(DigitVal(At(pre, j)) + 1)
           \o Zeros(Len(pre) - j)
           : j \in {Greatest({k \in 1..Len(pre) : At(pre, k) # "9"})} })

\* a string of digits that are not all 0, minus one
DigitsBefore(d) ==
    Pick({ SubSeq(d, 1, j - 1) \o ToString(DigitVal(At(d, j)) - 1)
           \o Repeat("9", Len(d) - j)
           : j \in {Greatest(NonZero(d))} })

\* p * 10^n cut at the point: [q, f] with q the digits before the point,
\* without zeros in front, and f those after it; p is a string of digits
DigitsSplit(p, n) ==
    IF n >= 0 THEN [q |-> p \o Zeros(n), f |-> ""]
    ELSE IF Len(p) + n <= 0 THEN [q |-> "0", f |-> Zeros(0 - n - Len(p)) \o p]
    ELSE [q |-> SubSeq(p, 1, Len(p) + n), f |-> SubSeq(p, Len(p) + n + 1, Len(p))]

\* whether q.f rounds up to q + 1: f is beyond one half, or at it with q odd
RoundsUp(q, f) ==
    /\ f # ""
    /\ \/ DigitVal(At(f, 1)) > 5
       \/ /\ DigitVal(At(f, 1)) = 5
          /\ \/ NonZero(SubSeq(f, 2, Len(f))) # {}
             \/ DigitVal(At(q, Len(q))) % 2 = 1

\* a power of two that sig * 10^ex is not below, and is below 16 times:
\* the first nine digits are between 2^26 and 2^30, and 10^n is
\* 2^(3.3219280... * n)
FloatGuess(sig, ex) ==
    Pick({ (IF m >= 536870912 THEN 29 ELSE IF m >= 268435456 THEN 28
            ELSE IF m >= 134217728 THEN 27 ELSE 26)
           + (((Len(sig) + ex - 9) * 3321928) \div 1000000) - 1
           : m \in {ToInt(SubSeq(sig \o "00000000", 1, 9))} })

\* how often 2 divides q for the quotient to be below 2^53, for q below 2^56
FloatExcess(q) ==
    IF DigitsReach(q, "36028797018963968") THEN 3
    ELSE IF DigitsReach(q, "18014398509481984") THEN 2
    ELSE IF DigitsReach(q, Two53) THEN 1
    ELSE 0

\* q.f * 2^e as a double, q a string of digits below 2^53
FloatRounded(q, f, e) ==
    Pick({ IF r = "0" THEN [k |-> "zero"]
           ELSE IF r = Two53
           THEN (IF e + 1 > 971 THEN [k |-> "inf"]
                 ELSE [k |-> "num", q |-> Two52, e |-> e + 1])
           ELSE IF e > 971 THEN [k |-> "inf"]
           ELSE [k |-> "num", q |-> r, e |-> e]
           : r \in {IF ~RoundsUp(q, f) THEN q
                    ELSE IF NonZero(q) = {} THEN "1"
                    ELSE IF \A j \in 1..Len(q) : At(q, j) = "9" THEN "1" \o Zeros(Len(q))
                    ELSE DigitsNext(q)} })

\* the double nearest to sig * 10^ex, sig a string of digits that neither
\* starts nor ends with 0: [k |-> "inf"], [k |-> "zero"], or
\* [k |-> "num", q |-> q, e |-> e] for q * 2^e.  With c the least power of
\* two the double can have, sig * 10^ex / 2^c is p * 10^n; as often as its
\* whole part is 2^53 or more it is halved
FloatNearestOf(sig, ex) ==
    Pick({ Pick({ Pick({ Pick({ Pick({
        FloatRounded(h.q, h.f, c + s)
        : h \in {IF s = 0 THEN w ELSE DigitsSplit(BigDigits(BigMulAdd(p, 5^s, 0)), n - s)} })
        : s \in {FloatExcess(w.q)} })
        : w \in {DigitsSplit(BigDigits(p), n)} })
        : p \in {BigMul(BigOfDigits(sig), IF c < 0 THEN BigPow(2, 0 - c) ELSE BigPow(5, c))},
          n \in {IF c < 0 THEN ex ELSE ex - c} })
        : c \in {IF FloatGuess(sig, ex) - 52 < -1074 THEN -1074
                 ELSE FloatGuess(sig, ex) - 52} })

\* the digits past the first 800 only tell a number from the one that the
\* first 800 make, as a last digit 1 does
FloatNearest(sig, ex) ==
    IF Len(sig) + ex > 310 THEN [k |-> "inf"]
    ELSE IF Len(sig) + ex < -325 THEN [k |-> "zero"]
    ELSE FloatNearestOf(IF Len(sig) > 800 THEN SubSeq(sig, 1, 800) \o "1" ELSE sig,
                        IF Len(sig) > 800 THEN ex + Len(sig) - 801 ELSE ex)

\* c lies where every number rounds to the double: between lo and hi, the
\* two included when the double's q is even
FloatRounds(c, lo, hi, even) ==
    IF even THEN DigitsCmp(lo, c) <= 0 /\ DigitsCmp(c, hi) <= 0
    ELSE DigitsCmp(lo, c) < 0 /\ DigitsCmp(c, hi) < 0

\* the text of k digits (zeros added up to the length of p) nearest to p
\* among those between lo and hi: <<>> when there is none
FloatCandidate(p, lo, hi, even, k) ==
    IF k >= Len(p) \/ NonZero(SubSeq(p, k + 1, Len(p))) = {} THEN <<p>>
    ELSE Pick({
      IF down[1] /\ up[1]
      THEN (IF DigitVal(At(p, k + 1)) < 5 THEN <<down[2]>>
            ELSE IF DigitVal(At(p, k + 1)) > 5
                    \/ NonZero(SubSeq(p, k + 2, Len(p))) # {} THEN <<up[2]>>
            ELSE IF DigitVal(At(p, k)) % 2 = 0 THEN <<down[2]>> ELSE <<up[2]>>)
      ELSE IF down[1] THEN <<down[2]>>
      ELSE IF up[1] THEN <<up[2]>>
      ELSE <<>>
      : down \in {Pick({ <<FloatRounds(c, lo, hi, even), c>>
                         : c \in {SubSeq(p, 1, k) \o Zeros(Len(p) - k)} })},
        up \in {IF NonZero(SubSeq(p, 1, k)) = {}
                   \/ \A j \in 1..k : At(p, j) = "9" THEN <<FALSE, "">>
                ELSE Pick({ <<FloatRounds(c, lo, hi, even), c>>
                            : c \in {DigitsNext(SubSeq(p, 1, k)) \o Zeros(Len(p) - k)} })} })

\* the digits and the place of the point of the shortest text that rounds to
\* the double q * 2^e: [sig, decpt] for 0.sig * 10^decpt.  With u the
\* quarter of the double's step (or u * 10^(e - 2) the quarter, when e < 2)
\* the double is 4q * u and the numbers that round to it lie from 4q - 2 to
\* 4q + 2, from 4q - 1 when the double below is half as far (q = 2^52).
\* d holds the digits of the double, of the upper end and of the lower end
FloatShortest(q, e) ==
    Pick({ Pick({ Pick({ Pick({ Pick({
      [sig |-> SubSeq(c, Least(NonZero(c)), Greatest(NonZero(c))),
       decpt |-> Len(c) - Least(NonZero(c)) + 1 + (IF e < 2 THEN e - 2 ELSE 0)]
      : c \in {cs[Least({m \in 1..17 : cs[m] # <<>>})][1]} })
      : cs \in {[m \in 1..17 |->
                  FloatCandidate(pd[1], pd[3], pd[2],
                                 DigitVal(At(q, Len(q))) % 2 = 0,
                                 Least(NonZero(pd[1])) - 1 + m)] \o <<>>} })
      : pd \in {[j \in 1..3 |-> Zeros(Len(d[2]) - Len(d[j])) \o d[j]] \o <<>>} })
      : d \in {[j \in 1..3 |->
                 BigDigits(BigMul(BigMulAdd(BigOfDigits(IF j = 3 THEN DigitsBefore(q)
                                                        ELSE q),
                                            4,
                                            IF j = 1 THEN 0
                                            ELSE IF j = 2 \/ ~(q = Two52 /\ e > -1074)
                                            THEN 2 ELSE 3),
                                  u))] \o <<>>} })
      : u \in {IF e >= 2 THEN BigPow(2, e - 2) ELSE BigPow(5, 2 - e)} })

\* the text of 0.sig * 10^decpt as repr() lays it out
FloatFormat(sig, decpt) ==
    LET n  == Len(sig)
        x  == decpt - 1
        ax == IF x < 0 THEN 0 - x ELSE x
    IN  IF decpt > 16 \/ decpt <= -4
        THEN At(sig, 1) \o (IF n > 1 THEN "." \o SubSeq(sig, 2, n) ELSE "")
             \o "e" \o (IF x < 0 THEN "-" ELSE "+")
             \o (IF ax < 10 THEN "0" ELSE "") \o ToString(ax)
        ELSE IF decpt <= 0 THEN "0." \o Zeros(0 - decpt) \o sig
        ELSE IF decpt < n THEN SubSeq(sig, 1, decpt) \o "." \o SubSeq(sig, decpt + 1, n)
        ELSE sig \o Zeros(decpt - n) \o ".0"

\* repr() of the float nearest to 0.sig * 10^decpt, sig digits without zeros
\* at either end.  A text of up to 15 digits between 1e-307 and 1e308 is
\* the shortest text of its double, which is then not worked out.
FloatBody(sig, decpt) ==
    IF Len(sig) <= 15 /\ decpt >= -306 /\ decpt <= 308 THEN FloatFormat(sig, decpt)
    ELSE Pick({ IF f.k = "inf" THEN "inf"
                ELSE IF f.k = "zero" THEN "0.0"
                ELSE Pick({ FloatFormat(r.sig, r.decpt) : r \in {FloatShortest(f.q, f.e)} })
                : f \in {FloatNearest(sig, decpt - Len(sig))} })

\* repr() of the float nearest to d * 10^e, negated when neg; d is a string
\* of digits
FloatRepr(neg, d, e) ==
    Pick({ IF nz = {} THEN (IF neg THEN "-0.0" ELSE "0.0")
           ELSE (IF neg THEN "-" ELSE "")
                \o FloatBody(SubSeq(d, Least(nz), Greatest(nz)),
                             Greatest(nz) - Least(nz) + 1 + (Len(d) - Greatest(nz)) + e)
           : nz \in {NonZero(d)} })

\* -x
FloatNeg(x0) ==
    Pick({ IF x = "nan" THEN x
           ELSE IF Ch(x, 0) = "-" THEN Slice(x, 1, Len(x)) ELSE "-" \o x
           : x \in {x0} })

\* x <= 0
FloatLeZero(x) == Ch(x, 0) = "-" \/ x = "0.0"

\* the length of digit (["_"] digit)* at offset i, 0 without a digit there:
\* it ends before the first character that is neither a digit nor an
\* underscore between two digits
DigitPart(s, i) ==
    IF ~IsDigit(Ch(s, i)) THEN 0
    ELSE Least({j \in (i + 1)..Len(s) :
                  /\ ~IsDigit(Ch(s, j))
                  /\ ~(Ch(s, j) = "_" /\ IsDigit(Ch(s, j - 1)) /\ IsDigit(Ch(s, j + 1)))})
         - i

\* int(x) for the digits of an exponent; past six digits the float is inf or
\* zero whatever the exponent
ExpValue(x) ==
    LET nz == NonZero(x)
    IN  IF nz = {} THEN 0
        ELSE IF Len(x) - Least(nz) >= 6 THEN 1000000
        ELSE ToInt(SubSeq(x, Least(nz), Len(x)))

\* an unsigned number as float() reads it, digits [. [digits]] or . digits,
\* then an exponent [eE][+-]digits, underscores between digits allowed:
\* <<>> when s is none, else <<[d, e]>> for the value d * 10^e
FloatNumber(s) ==
    Pick({ Pick({
        LET p  == a + (IF Ch(s, a) = "." THEN 1 ELSE 0) + b
            ex == Ch(s, p) \in {"e", "E"}
            sg == ex /\ Ch(s, p + 1) \in {"+", "-"}
            q  == p + 1 + (IF sg THEN 1 ELSE 0)
        IN  Pick({
              IF (a = 0 /\ b = 0) \/ (ex /\ x = 0) \/ (IF ex THEN q + x ELSE p) # Len(s)
              THEN <<>>
              ELSE Pick({
                     <<[d |-> ReplaceChar(Slice(s, 0, a), "_", "")
                              \o ReplaceChar(Slice(s, a + 1, a + 1 + b), "_", ""),
                        e |-> (IF sg /\ Ch(s, p + 1) = "-" THEN 0 - xv ELSE xv)
                              - Len(ReplaceChar(Slice(s, a + 1, a + 1 + b), "_", ""))]>>
                     : xv \in {ExpValue(ReplaceChar(Slice(s, q, q + x), "_", ""))} })
              : x \in {IF ex THEN DigitPart(s, q) ELSE 0} })
        : b \in {IF Ch(s, a) = "." THEN DigitPart(s, a + 1) ELSE 0} })
        : a \in {DigitPart(s, 0)} })

\* the blanks float() allows around the number: the blank, \t \n \v \f \r,
\* U+0085 and U+00A0, and not U+001C..U+001F, which str.strip() removes
IsFloatSpace(c) == c \in {" ", "\t", "\n", "", "\f", "\r", "", " "}

FloatStrip(s) ==
    Pick({ IF ns = {} THEN "" ELSE SubSeq(s, Least(ns), Greatest(ns))
           : ns \in {{i \in 1..Len(s) : ~IsFloatSpace(At(s, i))}} })

\* float(s) for a string: <<>> for ValueError, <<the float>> otherwise.  The
\* blanks around the text are dropped, then it is read as a sign followed
\* by a number, by inf or infinity, or by nan, in either case
FloatOfString(s0) ==
    Pick({ Pick({
        IF Upper(u) \in {"INF", "INFINITY"}
        THEN <<(IF Ch(s, 0) = "-" THEN "-inf" ELSE "inf")>>
        ELSE IF Upper(u) = "NAN" THEN <<"nan">>
        ELSE Pick({ IF n = <<>> THEN <<>>
                    ELSE <<FloatRepr(Ch(s, 0) = "-", n[1].d, n[1].e)>>
                    : n \in {FloatNumber(u)} })
        : u \in {IF Ch(s, 0) \in {"+", "-"} THEN Slice(s, 1, Len(s)) ELSE s} })
        : s \in {FloatStrip(s0)} })

\* float(s) for a text that a pattern of digits has matched
Float(s) == FloatOfString(s)[1]

(***************************************************************************)
(* mistral_parser._normalize_date                                          *)
(***************************************************************************)

IsLeap(y) == (y % 4 = 0 /\ y % 100 # 0) \/ y % 400 = 0

DaysInMonth(m, y) ==
    IF m \in {4, 6, 9, 11} THEN 30
    ELSE IF m = 2 THEN (IF IsLeap(y) THEN 29 ELSE 28)
    ELSE 31

\* datetime.strptime(s, "%d/%m/%Y") succeeds, for s already matching
\* \d{2}/\d{2}/\d{4}: two-digit day 01..31, month 01..12, year >= 1 and
\* the day exists in that month
StrptimeOk(s) ==
    LET d == ToInt(SubSeq(s, 1, 2))
        m == ToInt(SubSeq(s, 4, 5))
        y == ToInt(SubSeq(s, 7, 10))
    IN  /\ m >= 1 /\ m <= 12
        /\ y >= 1
        /\ d >= 1 /\ d <= DaysInMonth(m, y)

\* re.match(r'^\d{2}<sep>\d{2}<sep>\d{4}$', s)
MatchSeparated(s, sep) ==
    /\ Len(s) = 10
    /\ AllDigits(SubSeq(s, 1, 2)) /\ At(s, 3) = sep
    /\ AllDigits(SubSeq(s, 4, 5)) /\ At(s, 6) = sep
    /\ AllDigits(SubSeq(s, 7, 10))

\* re.match(r'^\d{8}$', s)
MatchEightDigits(s) == Len(s) = 8 /\ AllDigits(s)

NormalizeDateDashKeep(date_str) ==
    LET s == Strip(date_str)
    IN  IF MatchSeparated(s, "/")
        THEN (IF StrptimeOk(s) THEN Some(s) ELSE NoneVal)
        ELSE IF MatchEightDigits(s)
        THEN LET n == SubSeq(s, 1, 2) \o "/" \o SubSeq(s, 3, 4) \o "/" \o SubSeq(s, 5, 8)
             IN  IF StrptimeOk(n) THEN Some(n) ELSE NoneVal
        ELSE IF MatchSeparated(s, "-")
        THEN IF StrptimeOk(ReplaceChar(s, "-", "/")) THEN Some(s) ELSE NoneVal
        ELSE NoneVal

NormalizeDate(date_str) ==
    LET s == Strip(date_str)
    IN  IF MatchSeparated(s, "/")
        THEN (IF StrptimeOk(s) THEN Some(s) ELSE NoneVal)
        ELSE IF MatchEightDigits(s)
        THEN LET n == SubSeq(s, 1, 2) \o "/" \o SubSeq(s, 3, 4) \o "/" \o SubSeq(s, 5, 8)
             IN  IF StrptimeOk(n) THEN Some(n) ELSE NoneVal
        ELSE IF MatchSeparated(s, "-")
        THEN LET n == ReplaceChar(s, "-", "/")
             IN  IF StrptimeOk(n) THEN Some(n) ELSE NoneVal
        ELSE NoneVal

(***************************************************************************)
(* json.loads.  A value is a record tagged by t.  The str of a JSON string *)
(* and the keys of an object are texts: sequences of code points.          *)
(***************************************************************************)

JStr(x) == [t |-> "str", s |-> x]
\* an int, as str() prints it
JInt(raw) == [t |-> "int", raw |-> raw]
\* a float, as repr() prints it
JFloat(x) == [t |-> "float", x |-> x]
JNull == [t |-> "null"]
JBool(b) == [t |-> "bool", b |-> b]
JArr(a) == [t |-> "arr", a |-> a]
\* a dict: the function from its keys to their values
JObj(f) == [t |-> "obj", f |-> f]

JFail == [ok |-> FALSE, big |-> FALSE]

\* the failure of an int of more than 4300 digits, a ValueError that is not
\* a JSONDecodeError
JTooBig == [ok |-> FALSE, big |-> TRUE]

\* the offset of the first character from offset i on that is not in cs,
\* Len(s) when every character from there on is
SkipChars(s, i, cs) ==
    IF Ch(s, i) \notin cs THEN i
    ELSE Pick({ IF near # {} THEN Least(near)
                ELSE Pick({ IF far = {} THEN Len(s) ELSE Least(far)
                            : far \in {{j \in (i + 16)..(Len(s) - 1) : Ch(s, j) \notin cs}} })
                : near \in {{j \in (i + 1)..(i + 15) : Ch(s, j) \notin cs}} })

\* the offset after the JSON whitespace (blank, \t, \n, \r) at offset i
JsonWs(s, i) == SkipChars(s, i, {" ", "\t", "\n", "\r"})

\* the characters U+0000 to U+00FF at positions 1 to 256; the two that a
\* string cannot hold are written "?" (U+0000) and "~" (the grave accent),
\* and the tilde, which "~" no longer stands for, is written "?" as well
Latin1 ==
    "?\t\n\f\r"
    \o " !\"#$%&'()*+,-./0123456789:;<=>?"
    \o "@ABCDEFGHIJKLMNOPQRSTUVWXYZ[\\]^_"
    \o "~abcdefghijklmnopqrstuvwxyz{|}?"
    \o ""
    \o " ¡¢£¤¥¦§¨©ª«¬­®¯°±²³´µ¶·¸¹º»¼½¾¿"
    \o "ÀÁÂÃÄÅÆÇÈÉÊËÌÍÎÏÐÑÒÓÔÕÖ×ØÙÚÛÜÝÞß"
    \o "àáâãäåæçèéêëìíîïðñòóôõö÷øùúûüýþÿ"
\* chr(n)
Chr(n) == IF n > 255 THEN "?" ELSE At(Latin1, n + 1)

\* ord(c)
Ord(c) == IF c = "?" THEN 63 ELSE Greatest({k \in 1..256 : At(Latin1, k) = c}) - 1

(***************************************************************************)
(* Texts.  A str that json.loads builds may hold any code point, so it is  *)
(* a text: the sequence of its code points.                                *)
(***************************************************************************)

\* the text of a string of the model
Text(s) == [k \in 1..Len(s) |-> Ord(At(s, k))]

\* the code points for which str.isspace() holds
UnicodeSpaces ==
    {9, 10, 11, 12, 13, 28, 29, 30, 31, 32, 133, 160, 5760}
    \cup 8192..8202 \cup {8232, 8233, 8239, 8287, 12288}

\* the digit zero of each script of the category Nd; its nine other digits
\* follow it
DecimalZeros ==
    { 48, 1632, 1776, 1984, 2406, 2534, 2662, 2790, 2918,
      3046, 3174, 3302, 3430, 3558, 3664, 3792, 3872, 4160,
      4240, 6112, 6160, 6470, 6608, 6784, 6800, 6992, 7088,
      7232, 7248, 42528, 43216, 43264, 43472, 43504, 43600, 44016,
      65296, 66720, 68912, 69734, 69872, 69942, 70096, 70384, 70736,
      70864, 71248, 71360, 71472, 71904, 72016, 72784, 73040, 73120,
      92768, 92864, 93008, 120782, 120792, 120802, 120812, 120822, 123200,
      123632, 125264, 130032 }

\* \d, and the digits int() and float() read
IsDecimal(c) == \E z \in DecimalZeros : c >= z /\ c <= z + 9

\* the value of a digit
DecimalValue(c) == c - Greatest({z \in DecimalZeros : z <= c})

\* str.strip() of a text
TStrip(t) ==
    Pick({ IF keep = {} THEN <<>> ELSE SubSeq(t, Least(keep), Greatest(keep))
           : keep \in {{k \in 1..Len(t) : t[k] \notin UnicodeSpaces}} })

RECURSIVE Shown(_)
\* a text as a string of the model, "?" for what such a string cannot hold
Shown(t) ==
    IF Len(t) = 0 THEN ""
    ELSE IF Len(t) = 1 THEN Chr(t[1])
    ELSE Shown(SubSeq(t, 1, Len(t) \div 2))
         \o Shown(SubSeq(t, (Len(t) \div 2) + 1, Len(t)))

RECURSIVE FoldDigits(_)
\* a text as a string of the model with every digit written as the ASCII
\* digit of its value, which is how \d, int() and float() read it
FoldDigits(t) ==
    IF Len(t) = 0 THEN ""
    ELSE IF Len(t) = 1
    THEN (IF IsDecimal(t[1]) THEN At("0123456789", DecimalValue(t[1]) + 1)
          ELSE Chr(t[1]))
    ELSE FoldDigits(SubSeq(t, 1, Len(t) \div 2))
         \o FoldDigits(SubSeq(t, (Len(t) \div 2) + 1, Len(t)))

\* the characters below U+0020, which a JSON string may not hold unescaped
ControlChars == CharsOf(SubSeq(Latin1, 2, 32))

HexDigits == "0123456789abcdef"

\* int(c, 16) for one hexadecimal digit
HexVal(c) ==
    CHOOSE v \in 0..15 : At(HexDigits, v + 1) = c \/ Upper(At(HexDigits, v + 1)) = c

IsHex(c) == \E v \in 0..15 : At(HexDigits, v + 1) = c \/ Upper(At(HexDigits, v + 1)) = c

\* four hexadecimal digits at offset p of s
IsHex4(s, p) == \A k \in 0..3 : IsHex(Ch(s, p + k))

Hex4Val(s, p) ==
    4096 * HexVal(Ch(s, p)) + 256 * HexVal(Ch(s, p + 1))
    + 16 * HexVal(Ch(s, p + 2)) + HexVal(Ch(s, p + 3))

\* the number of backslashes that end just before offset j
BackslashesBefore(s, j) ==
    IF Ch(s, j - 1) # "\\" THEN 0
    ELSE j - 1 - Greatest({k \in (0 - 1)..(j - 2) : Ch(s, k) # "\\"})

\* the character of a one-letter escape, "" for a letter that is none
JsonEscape(e) ==
    CASE e = "\"" -> "\""
      [] e = "\\" -> "\\"
      [] e = "/" -> "/"
      [] e = "b" -> Chr(8)
      [] e = "f" -> "\f"
      [] e = "n" -> "\n"
      [] e = "r" -> "\r"
      [] e = "t" -> "\t"
      [] OTHER -> ""

\* \uXXXX at offset p is the first half of a surrogate pair whose second
\* half follows
SurrogatePair(body, p) ==
    /\ Hex4Val(body, p + 2) >= 55296 /\ Hex4Val(body, p + 2) <= 56319
    /\ Slice(body, p + 6, p + 8) = "\\u" /\ IsHex4(body, p + 8)
    /\ Hex4Val(body, p + 8) >= 56320 /\ Hex4Val(body, p + 8) <= 57343

\* the offsets of a string literal's body at which an escape begins: the
\* backslashes that an even number of backslashes precedes
EscapeStarts(body) ==
    {p \in 0..(Len(body) - 1) :
        Ch(body, p) = "\\" /\ BackslashesBefore(body, p) % 2 = 0}

\* the escape at offset p is one of \" \\ \/ \b \f \n \r \t or \u and four
\* hexadecimal digits
EscapeOk(body, p) ==
    IF Ch(body, p + 1) = "u" THEN IsHex4(body, p + 2)
    ELSE JsonEscape(Ch(body, p + 1)) # ""

\* what offset p of the body adds to the str: the code point of a character
\* or of an escape that begins there, one code point for the two escapes of
\* a surrogate pair, nothing for the other offsets of an escape
JsonChar(body, starts, p) ==
    IF p \in starts
    THEN IF Ch(body, p + 1) # "u" THEN <<Ord(JsonEscape(Ch(body, p + 1)))>>
         ELSE IF SurrogatePair(body, p)
         THEN <<65536 + 1024 * (Hex4Val(body, p + 2) - 55296)
                + (Hex4Val(body, p + 8) - 56320)>>
         ELSE IF /\ p >= 6 /\ (p - 6) \in starts /\ Ch(body, p - 5) = "u"
                 /\ SurrogatePair(body, p - 6)
         THEN <<>>
         ELSE <<Hex4Val(body, p + 2)>>
    ELSE IF \/ (p - 1) \in starts
            \/ \E k \in 2..5 : (p - k) \in starts /\ Ch(body, p - k + 1) = "u"
    THEN <<>>
    ELSE <<Ord(Ch(body, p))>>

RECURSIVE JsonChars(_, _, _, _)
\* the code points that offsets lo to hi of the body add, joined by halves
JsonChars(body, starts, lo, hi) ==
    IF lo > hi THEN <<>>
    ELSE IF lo = hi THEN JsonChar(body, starts, lo)
    ELSE Pick({ JsonChars(body, starts, lo, mid)
                \o JsonChars(body, starts, mid + 1, hi)
                : mid \in {(lo + hi) \div 2} })

\* a string literal whose opening quote is at offset i: it ends at the first
\* quote that an even number of backslashes precedes
JsonString(s, i) ==
    LET ends == {j \in (i + 1)..(Len(s) - 1) :
                    Ch(s, j) = "\"" /\ BackslashesBefore(s, j) % 2 = 0}
    IN  IF Ch(s, i) # "\"" \/ ends = {} THEN JFail
        ELSE Pick({
               IF \E k \in 1..Len(body) : At(body, k) \in ControlChars THEN JFail
               ELSE Pick({ IF \E p \in starts : ~EscapeOk(body, p) THEN JFail
                           ELSE [ok |-> TRUE,
                                 v |-> JStr(JsonChars(body, starts, 0, Len(body) - 1)),
                                 n |-> i + 2 + Len(body)]
                           : starts \in {EscapeStarts(body)} })
               : body \in {Slice(s, i + 1, Least(ends))} })

\* -?(0|[1-9][0-9]*)(\.[0-9]+)?([eE][-+]?[0-9]+)? at offset i: an int when
\* it has neither fraction nor exponent, a float otherwise.  int() raises
\* ValueError on more than 4300 digits, which fails the whole text
JsonNumber(s, i) ==
    LET neg == Ch(s, i) = "-"
        a   == IF Ch(s, i) = "-" THEN i + 1 ELSE i
    IN  Pick({ IF r = 0 THEN JFail ELSE Pick({ Pick({
          LET fe == IF f >= 1 THEN ie + 1 + f ELSE ie
              ex == Ch(s, fe) \in {"e", "E"}
              sg == ex /\ Ch(s, fe + 1) \in {"+", "-"}
              q  == fe + 1 + (IF sg THEN 1 ELSE 0)
          IN  Pick({ Pick({
                IF f = 0 /\ x = 0
                THEN (IF e - a > 4300 THEN JTooBig
                      ELSE [ok |-> TRUE,
                            v |-> JInt(IF Slice(s, i, e) = "-0" THEN "0" ELSE Slice(s, i, e)),
                            n |-> e])
                ELSE Pick({
                       [ok |-> TRUE,
                        v |-> JFloat(FloatRepr(neg,
                                 Slice(s, a, ie) \o Slice(s, ie + 1, ie + 1 + f),
                                 (IF sg /\ Ch(s, fe + 1) = "-" THEN 0 - xv ELSE xv) - f)),
                        n |-> e]
                       : xv \in {ExpValue(Slice(s, q, q + x))} })
                : e \in {IF x >= 1 THEN q + x ELSE fe} })
                : x \in {IF ex THEN DigitRun(s, q) ELSE 0} })
          : f \in {IF Ch(s, ie) = "." THEN DigitRun(s, ie + 1) ELSE 0} })
          : ie \in {IF Ch(s, a) = "0" THEN a + 1 ELSE a + r} })
          : r \in {DigitRun(s, a)} })

\* a value that is no array and no object, at offset i
JsonScalar(s, i) ==
    IF Ch(s, i) = "\"" THEN JsonString(s, i)
    ELSE IF Slice(s, i, i + 4) = "null"
    THEN [ok |-> TRUE, v |-> JNull, n |-> i + 4]
    ELSE IF Slice(s, i, i + 4) = "true"
    THEN [ok |-> TRUE, v |-> JBool(TRUE), n |-> i + 4]
    ELSE IF Slice(s, i, i + 5) = "false"
    THEN [ok |-> TRUE, v |-> JBool(FALSE), n |-> i + 5]
    ELSE IF Slice(s, i, i + 3) = "NaN"
    THEN [ok |-> TRUE, v |-> JFloat("nan"), n |-> i + 3]
    ELSE IF Slice(s, i, i + 8) = "Infinity"
    THEN [ok |-> TRUE, v |-> JFloat("inf"), n |-> i + 8]
    ELSE IF Slice(s, i, i + 9) = "-Infinity"
    THEN [ok |-> TRUE, v |-> JFloat("-inf"), n |-> i + 9]
    ELSE JsonNumber(s, i)

(***************************************************************************)
(* The scanner as a machine.  Its state is the offset i, the stack of the  *)
(* arrays and objects that are open (for each its elements a or members f  *)
(* read so far, and the key k that awaits its value), what is expected     *)
(* next (pc), the value v once the document is read, and the exception exc *)
(* once it is raised.                                                      *)
(***************************************************************************)

JsonRaise(st, exc) == [st EXCEPT !.pc = "raise", !.exc = exc]

\* the value v, which ends before offset n, goes into the array or object
\* on top of the stack (a repeated key takes the last value, as a dict
\* does); it is the document when none is open
JsonAccept(st, v, n) ==
    IF st.stack = <<>> THEN [st EXCEPT !.i = n, !.pc = "end", !.v = v]
    ELSE [st EXCEPT !.i = n, !.pc = "next",
                    !.stack[Len(st.stack)] =
                        IF @.t = "arr" THEN [@ EXCEPT !.a = Append(@, v)]
                        ELSE [@ EXCEPT !.f = (st.stack[Len(st.stack)].k :> v) @@ @]]

\* the array or object on top of the stack is closed before offset n
JsonClose(st, v, n) ==
    JsonAccept([st EXCEPT !.stack = SubSeq(@, 1, Len(@) - 1)], v, n)

\* one token.  An array or object that would be open inside room others is
\* not entered: the scanner calls itself for each and RecursionError ends it
JsonStep(s, room, st) ==
    Pick({ LET c == Ch(s, j)
               top == st.stack[Len(st.stack)]
           IN  CASE st.pc \in {"value", "first"} ->
                      IF st.pc = "first" /\ c = "]"
                      THEN JsonClose(st, JArr(top.a), j + 1)
                      ELSE IF c \in {"[", "{"}
                      THEN IF Len(st.stack) >= room
                           THEN JsonRaise(st, "RecursionError")
                           ELSE [st EXCEPT
                                    !.i = j + 1,
                                    !.pc = IF c = "[" THEN "first" ELSE "key1",
                                    !.stack = Append(@,
                                        [t |-> IF c = "[" THEN "arr" ELSE "obj",
                                         a |-> <<>>, f |-> <<>>, k |-> <<>>])]
                      ELSE Pick({ IF r.ok THEN JsonAccept(st, r.v, r.n)
                                  ELSE JsonRaise(st, IF r.big THEN "ValueError"
                                                     ELSE "JSONDecodeError")
                                  : r \in {JsonScalar(s, j)} })
                 [] st.pc \in {"key1", "key"} ->
                      IF st.pc = "key1" /\ c = "}"
                      THEN JsonClose(st, JObj(top.f), j + 1)
                      ELSE Pick({ IF k.ok
                                  THEN [st EXCEPT !.i = k.n, !.pc = "colon",
                                                  !.stack[Len(st.stack)].k = k.v.s]
                                  ELSE JsonRaise(st, "JSONDecodeError")
                                  : k \in {JsonString(s, j)} })
                 [] st.pc = "colon" ->
                      IF c = ":" THEN [st EXCEPT !.i = j + 1, !.pc = "value"]
                      ELSE JsonRaise(st, "JSONDecodeError")
                 [] st.pc = "next" ->
                      IF c = ","
                      THEN [st EXCEPT !.i = j + 1,
                                      !.pc = IF top.t = "arr" THEN "value" ELSE "key"]
                      ELSE IF top.t = "arr" /\ c = "]"
                      THEN JsonClose(st, JArr(top.a), j + 1)
                      ELSE IF top.t = "obj" /\ c = "}"
                      THEN JsonClose(st, JObj(top.f), j + 1)
                      ELSE JsonRaise(st, "JSONDecodeError")
                 [] st.pc = "end" ->
                      IF j = Len(s) THEN [st EXCEPT !.pc = "done"]
                      ELSE JsonRaise(st, "JSONDecodeError")
           : j \in {JsonWs(s, st.i)} })

RECURSIVE JsonRun(_, _, _, _)
\* up to n tokens from the state st, run by halves
JsonRun(s, room, st, n) ==
    IF st.pc \in {"done", "raise"} THEN st
    ELSE IF n <= 1 THEN JsonStep(s, room, st)
    ELSE Pick({ JsonRun(s, room, mid, n - (n \div 2))
                : mid \in {JsonRun(s, room, st, n \div 2)} })

\* sys.getrecursionlimit()
RecursionLimit == 1000

\* the state in which the scanner ends on s when frames Python frames are
\* in use where json.loads is called: loads, decode and raw_decode take
\* three more, and the scanner's first call one
JsonDecode(s, frames) ==
    JsonRun(s, RecursionLimit - 4 - frames,
            [i |-> 0, stack |-> <<>>, pc |-> "value", v |-> JNull, exc |-> ""],
            Len(s) + 2)

\* json.loads(s): <<>> when it raises, <<value>> otherwise
JsonLoads(s, frames) ==
    Pick({ IF r.pc = "done" THEN <<r.v>> ELSE <<>> : r \in {JsonDecode(s, frames)} })

\* the exception json.loads(s) raises when it raises: JSONDecodeError, the
\* ValueError of an int of more than 4300 digits, or RecursionError
JsonLoadsError(s, frames) == JsonDecode(s, frames).exc

(***************************************************************************)
(* mistral_parser.extract_with_mistral                                     *)
(***************************************************************************)

RECURSIVE RemoveAll(_, _)
\* s.replace(old, "")
RemoveAll(s, old) ==
    LET found == {i \in 0..(Len(s) - Len(old)) : Slice(s, i, i + Len(old)) = old}
    IN  IF found = {} THEN s
        ELSE Slice(s, 0, Least(found))
             \o RemoveAll(Slice(s, Least(found) + Len(old), Len(s)), old)

\* The Markdown code fence, three grave accents, each written as a tilde
Fence == "~~~"

\* json_text.replace(fence + "json", "").replace(fence, "").strip()
CleanReply(json_text) ==
    Strip(RemoveAll(RemoveAll(json_text, Fence \o "json"), Fence))

\* the group(0) of the DOTALL search for an opening bracket, anything, a
\* closing bracket: <<>> without a match, else <<text>> from the first "["
\* to the last "]" after it
ArrayMatch(s) ==
    LET opens == {i \in 0..(Len(s) - 1) : Ch(s, i) = "["}
    IN  IF opens = {} THEN <<>>
        ELSE LET a == Least(opens)
                 closes == {j \in (a + 1)..(Len(s) - 1) : Ch(s, j) = "]"}
             IN  IF closes = {} THEN <<>>
                 ELSE <<Slice(s, a, Greatest(closes) + 1)>>

\* _strptime reads %d as 3[0-1], [1-2]\d, 0[1-9] or [1-9] and %m as
\* 1[0-2], 0[1-9] or [1-9], and only \d matches the digits of other scripts:
\* of a date written DD/MM/YYYY the first digit of the day and both digits
\* of the month are ASCII, and the second digit of the day is ASCII unless
\* the first is 1 or 2
StrptimeWritten(w) ==
    /\ w[1] >= 48 /\ w[1] <= 57
    /\ w[1] \in {49, 50} \/ (w[2] >= 48 /\ w[2] <= 57)
    /\ w[4] >= 48 /\ w[4] <= 57 /\ w[5] >= 48 /\ w[5] <= 57

\* _normalize_date of a text: the date that is returned keeps the digits as
\* they were written
NormalizeDateText(date_str) ==
    Pick({ IF NormalizeDate(FoldDigits(s)) = NoneVal THEN NoneVal
           ELSE Pick({ IF StrptimeWritten(w) THEN Some(w) ELSE NoneVal
                       : w \in {IF Len(s) = 8
                                THEN SubSeq(s, 1, 2) \o <<47>> \o SubSeq(s, 3, 4)
                                     \o <<47>> \o SubSeq(s, 5, 8)
                                ELSE [k \in 1..Len(s) |-> IF s[k] = 45 THEN 47 ELSE s[k]]} })
           : s \in {TStrip(date_str)} })

\* str(v) of a value that is no list and no dict
PyStr(v) ==
    CASE v.t = "str" -> v.s
      [] v.t = "int" -> Text(v.raw)
      [] v.t = "float" -> Text(v.x)
      [] v.t = "null" -> Text("None")
      [] v.t = "bool" -> Text(IF v.b THEN "True" ELSE "False")

\* _normalize_date(t["date"]).  The str() of a list or of a dict opens with
\* a bracket or a brace, which none of the three formats matches, unless it
\* raises RecursionError: the item is rejected either way.
NormalizeDateValue(v) ==
    IF v.t \in {"arr", "obj"} THEN NoneVal ELSE NormalizeDateText(PyStr(v))

\* float(n) for an int: <<>> for the OverflowError of an int no float holds
IntToFloat(raw) ==
    LET neg == Ch(raw, 0) = "-"
        x   == FloatRepr(neg, IF neg THEN Slice(raw, 1, Len(raw)) ELSE raw, 0)
    IN  IF x \in {"inf", "-inf"} THEN <<>> ELSE <<x>>

RECURSIVE FloatAscii(_)
\* what float() reads of a str: from U+0080 on a space is read as a blank,
\* a digit as the ASCII digit of its value, and anything else as "?"
FloatAscii(t) ==
    IF Len(t) = 0 THEN ""
    ELSE IF Len(t) = 1
    THEN (IF t[1] < 128 THEN Chr(t[1])
          ELSE IF t[1] \in UnicodeSpaces THEN " "
          ELSE IF IsDecimal(t[1]) THEN At("0123456789", DecimalValue(t[1]) + 1)
          ELSE "?")
    ELSE FloatAscii(SubSeq(t, 1, Len(t) \div 2))
         \o FloatAscii(SubSeq(t, (Len(t) \div 2) + 1, Len(t)))

\* float(t["montant"]): <<>> when it raises (ValueError, TypeError,
\* OverflowError)
PyFloat(v) ==
    CASE v.t = "int" -> IntToFloat(v.raw)
      [] v.t = "float" -> <<v.x>>
      [] v.t = "str" -> FloatOfString(FloatAscii(v.s))
      [] v.t = "bool" -> <<IF v.b THEN "1.0" ELSE "0.0">>
      [] OTHER -> <<>>

MistralKeys == {Text("date"), Text("libelle"), Text("montant")}

\* k in t: "yes", "no", or "raise" (TypeError on a number, null or boolean)
PyIn(k, t) ==
    CASE t.t = "obj" -> (IF k \in DOMAIN t.f THEN "yes" ELSE "no")
      [] t.t = "str" ->
           (IF \E i \in 0..(Len(t.s) - Len(k)) : SubSeq(t.s, i + 1, i + Len(k)) = k
            THEN "yes" ELSE "no")
      [] t.t = "arr" ->
           (IF \E e \in 1..Len(t.a) : t.a[e].t = "str" /\ t.a[e].s = k
            THEN "yes" ELSE "no")
      [] OTHER -> "raise"

\* the body of the validation loop for one item: <<>> when the item is
\* rejected (rejected_count += 1), <<transaction>> when it is appended.
\* Date and Libelle are texts, Montant is the float.
MistralItem(t) ==
    IF \E k \in MistralKeys : PyIn(k, t) # "yes" THEN <<>>
    ELSE IF t.t # "obj" THEN <<>>
    ELSE Pick({ IF date_normalized = NoneVal THEN <<>>
                ELSE Pick({ IF montant = <<>> THEN <<>>
                            ELSE IF t.f[Text("libelle")].t # "str" THEN <<>>
                            ELSE <<[Date |-> date_normalized[1],
                                    Libelle |-> TStrip(t.f[Text("libelle")].s),
                                    Montant |-> montant[1]]>>
                            : montant \in {PyFloat(t.f[Text("montant")])} })
                : date_normalized \in {NormalizeDateValue(t.f[Text("date")])} })

\* a variant that drops a rejected item without counting it
MistralStepUncounted(raw, st) ==
    Pick({ [idx |-> st.idx + 1, tx |-> st.tx \o r, rejected |-> st.rejected]
           : r \in {MistralItem(raw[st.idx + 1])} })

\* one iteration of the for loop on st = [idx, tx, rejected]
MistralStep(raw, st) ==
    Pick({ [idx |-> st.idx + 1,
            tx |-> st.tx \o r,
            rejected |-> st.rejected + (IF r = <<>> THEN 1 ELSE 0)]
           : r \in {MistralItem(raw[st.idx + 1])} })

RECURSIVE MistralLoop(_, _, _)
\* n iterations of the for loop from st, run by halves
MistralLoop(raw, st, n) ==
    IF n <= 0 THEN st
    ELSE IF n = 1 THEN MistralStep(raw, st)
    ELSE Pick({ MistralLoop(raw, mid, n - (n \div 2))
                : mid \in {MistralLoop(raw, st, n \div 2)} })

\* lines 38-41: "raise" without MISTRAL_API_KEY, "call" with it
MistralKeyCheck(env) == IF env.key THEN "call" ELSE "raise"

\* lines 87-124, the try body up to json.loads: [out |-> "exc"] with the
\* class of the exception when it raises, and whether json_text_cleaned
\* (line 114) was bound by then; [out |-> "return"] for the return [] of
\* line 122; else [out |-> "raw", raw |-> transactions_raw].  env.exc is the
\* class of what the client or the call raises, env.frames the number of
\* Python frames in use where extract_with_mistral is called.
MistralParse(env) ==
    IF env.call = "raise" THEN [out |-> "exc", exc |-> env.exc, bound |-> FALSE]
    ELSE IF env.content = NoneVal
    THEN [out |-> "exc", exc |-> "AttributeError", bound |-> FALSE]
    ELSE Pick({ IF m = <<>> THEN [out |-> "return"]
                ELSE Pick({ IF j = <<>>
                            THEN [out |-> "exc",
                                  exc |-> JsonLoadsError(m[1], env.frames + 1),
                                  bound |-> TRUE]
                            ELSE [out |-> "raw", raw |-> j[1].a]
                            : j \in {JsonLoads(m[1], env.frames + 1)} })
                : m \in {ArrayMatch(CleanReply(Strip(env.content[1])))} })

\* a variant whose only handler is the one for JSONDecodeError
MistralExceptJsonOnly(exc, bound) ==
    IF exc = "JSONDecodeError" /\ bound THEN "return" ELSE "raise"

\* lines 192-201, the except clauses of the try.  Both return []; the one
\* for json.JSONDecodeError first logs json_text_cleaned, and when the
\* exception came before line 114 bound that name, the handler itself raises
\* UnboundLocalError, which leaves the function.
MistralExcept(exc, bound) ==
    IF exc = "JSONDecodeError" THEN (IF bound THEN "return" ELSE "raise")
    ELSE "return"

\* the completion calls extract_with_mistral makes: none without the key,
\* one with it, whatever the call does (lines 38-41 and 87-98)
MistralCalls(env) == IF MistralKeyCheck(env) = "raise" THEN 0 ELSE 1

\* extract_with_mistral(text, bank_type): [raised, tx]
extract_with_mistral(env) ==
    IF MistralKeyCheck(env) = "raise" THEN [raised |-> TRUE, tx |-> <<>>]
    ELSE Pick({ IF p.out = "exc"
                THEN [raised |-> MistralExcept(p.exc, p.bound) = "raise", tx |-> <<>>]
                ELSE IF p.out = "return" THEN [raised |-> FALSE, tx |-> <<>>]
                ELSE [raised |-> FALSE,
                      tx |-> MistralLoop(p.raw, [idx |-> 0, tx |-> <<>>,
                                                 rejected |-> 0], Len(p.raw)).tx]
                : p \in {MistralParse(env)} })

(***************************************************************************)
(* parsers.extract_ca_transactions                                         *)
(***************************************************************************)

\* the year written into f"{jour}/{mois}/2025"
CaDefaultYear == "2025"

\* 'Montant': montant, the amount stored with the sign it was read with
DebitKeepSign(montant) == montant

\* 'Montant': -montant, the amount every layout parser stores for an entry
Debit(montant) == FloatNeg(montant)

CaSkipKeywords == {"TOTAL", "Date", "Montant", "Commerce", "Page"}

\* (\d{1,2}\.\d{2}) tried at 0-based offset i: the end offset, or -1
CaDateEndAt(line, i) ==
    IF /\ IsDigit(Ch(line, i)) /\ IsDigit(Ch(line, i + 1)) /\ Ch(line, i + 2) = "."
       /\ IsDigit(Ch(line, i + 3)) /\ IsDigit(Ch(line, i + 4))
    THEN i + 5
    ELSE IF /\ IsDigit(Ch(line, i)) /\ Ch(line, i + 1) = "."
            /\ IsDigit(Ch(line, i + 2)) /\ IsDigit(Ch(line, i + 3))
    THEN i + 4
    ELSE -1

\* re.search(r'(\d{1,2}\.\d{2})', line): <<>> or <<[s, e]>> (leftmost match)
CaDateSearch(line) ==
    LET hits == {i \in 0..(Len(line) - 1) : CaDateEndAt(line, i) >= 0}
    IN  IF hits = {} THEN <<>>
        ELSE <<[s |-> Least(hits), e |-> CaDateEndAt(line, Least(hits))]>>

\* -?(\d{1,5}),(\d{2}) tried at offset i: the offset where group 1 starts, or -1
CaMontantGroupAt(line, i) ==
    LET j == IF Ch(line, i) = "-" THEN i + 1 ELSE i
        r == DigitRun(line, j)
    IN  IF /\ r >= 1 /\ r <= 5 /\ Ch(line, j + r) = ","
           /\ IsDigit(Ch(line, j + r + 1)) /\ IsDigit(Ch(line, j + r + 2))
        THEN j ELSE -1

\* re.search(r'-?(\d{1,5}),(\d{2})', line): <<>> or <<[s, g1s, g1e, e]>>
CaMontantSearch(line) ==
    LET hits == {i \in 0..(Len(line) - 1) : CaMontantGroupAt(line, i) >= 0}
    IN  IF hits = {} THEN <<>>
        ELSE LET s == Least(hits)
                 j == CaMontantGroupAt(line, s)
                 r == DigitRun(line, j)
             IN  <<[s |-> s, g1s |-> j, g1e |-> j + r, e |-> j + r + 3]>>

\* montant_str = montant_match.group(1)
CaMontantStr(line, mm) == Slice(line, mm.g1s, mm.g1e)

\* one iteration of the for loop: the transactions the line appends (0 or 1)
CaLine(line) ==
    IF AnyKeyword(line, CaSkipKeywords) THEN <<>>
    ELSE LET dm == CaDateSearch(line)
             mm == CaMontantSearch(line)
         IN  IF dm = <<>> \/ mm = <<>> THEN <<>>
             ELSE LET date_str == Slice(line, dm[1].s, dm[1].e)
                      middle_text == Strip(Slice(line, dm[1].e, mm[1].s))
                      dot == Least({k \in 0..(Len(date_str) - 1) : Ch(date_str, k) = "."})
                      jour == Slice(date_str, 0, dot)
                      mois == Slice(date_str, dot + 1, Len(date_str))
                      montant == Float(ReplaceChar(CaMontantStr(line, mm[1]), ",", "."))
                  IN  IF middle_text = "" THEN <<>>
                      ELSE <<[Date |-> jour \o "/" \o mois \o "/" \o CaDefaultYear,
                              Libelle |-> middle_text,
                              Montant |-> Debit(montant)]>>

RECURSIVE extract_ca_transactions(_)
extract_ca_transactions(lines) ==
    IF lines = <<>> THEN <<>>
    ELSE CaLine(Head(lines)) \o extract_ca_transactions(Tail(lines))

(***************************************************************************)
(* parsers.extract_bp_transactions                                         *)
(***************************************************************************)

BpSkipKeywords == {"DATE", "NOM", "MONTANT", "Page", "TOTAL"}

\* re.match(r'(\d{1,2})(\d{2})(\d{2})', s): <<>> or <<[jour, mois, yy, e]>>
BpDateMatch(s) ==
    LET r == DigitRun(s, 0)
    IN  IF r >= 6
        THEN <<[jour |-> Slice(s, 0, 2), mois |-> Slice(s, 2, 4),
                yy |-> Slice(s, 4, 6), e |-> 6]>>
        ELSE IF r = 5
        THEN <<[jour |-> Slice(s, 0, 1), mois |-> Slice(s, 1, 3),
                yy |-> Slice(s, 3, 5), e |-> 5]>>
        ELSE <<>>

\* (\d+),(\d{2}) tried at offset i
BpMontantAt(s, i) ==
    LET r == DigitRun(s, i)
    IN  /\ r >= 1 /\ Ch(s, i + r) = ","
        /\ IsDigit(Ch(s, i + r + 1)) /\ IsDigit(Ch(s, i + r + 2))

\* re.search(r'(\d+),(\d{2})', s): <<>> or <<[s, g1e, e]>>
BpMontantSearch(s) ==
    LET hits == {i \in 0..(Len(s) - 1) : BpMontantAt(s, i)}
    IN  IF hits = {} THEN <<>>
        ELSE LET i == Least(hits)
                 r == DigitRun(s, i)
             IN  <<[s |-> i, g1e |-> i + r, e |-> i + r + 3]>>

\* one iteration of the for loop
BpLine(line) ==
    IF AnyKeyword(line, BpSkipKeywords) THEN <<>>
    ELSE LET st == Strip(line)
             dm == BpDateMatch(st)
             mm == BpMontantSearch(st)
         IN  IF dm = <<>> \/ mm = <<>> THEN <<>>
             ELSE LET montant == Float(ReplaceChar(Slice(st, mm[1].s, mm[1].g1e), ",", "."))
                      middle_text == Strip(Slice(st, dm[1].e, mm[1].s))
                  IN  <<[Date |-> dm[1].jour \o "/" \o dm[1].mois \o "/20" \o dm[1].yy,
                         Libelle |-> middle_text,
                         Montant |-> Debit(montant)]>>

RECURSIVE extract_bp_transactions(_)
extract_bp_transactions(lines) ==
    IF lines = <<>> THEN <<>>
    ELSE BpLine(Head(lines)) \o extract_bp_transactions(Tail(lines))

(***************************************************************************)
(* parsers.extract_lcl_transactions                                        *)
(***************************************************************************)

LclHeader == "PAIEMENTS PAR CARTE"

\* mois_dict.get(mois_txt, None)
MoisDict(mois_txt) ==
    CASE mois_txt = "JANVIER" -> Some("01")
      [] mois_txt \in {"FÉVRIER", "FEVRIER"} -> Some("02")
      [] mois_txt = "MARS" -> Some("03")
      [] mois_txt = "AVRIL" -> Some("04")
      [] mois_txt = "MAI" -> Some("05")
      [] mois_txt = "JUIN" -> Some("06")
      [] mois_txt = "JUILLET" -> Some("07")
      [] mois_txt \in {"AOÛT", "AOUT"} -> Some("08")
      [] mois_txt = "SEPTEMBRE" -> Some("09")
      [] mois_txt = "OCTOBRE" -> Some("10")
      [] mois_txt = "NOVEMBRE" -> Some("11")
      [] mois_txt \in {"DÉCEMBRE", "DECEMBRE"} -> Some("12")
      [] OTHER -> NoneVal

\* [A-ZÉÈÊÀÙ]
IsHeaderLetter(c) ==
    \E k \in 1..Len("ABCDEFGHIJKLMNOPQRSTUVWXYZÉÈÊÀÙ") :
        At("ABCDEFGHIJKLMNOPQRSTUVWXYZÉÈÊÀÙ", k) = c

RECURSIVE SpaceRun(_, _)
SpaceRun(s, i) == IF IsSpace(Ch(s, i)) THEN 1 + SpaceRun(s, i + 1) ELSE 0

RECURSIVE LetterRun(_, _)
LetterRun(s, i) == IF IsHeaderLetter(Ch(s, i)) THEN 1 + LetterRun(s, i + 1) ELSE 0

\* \s*([A-ZÉÈÊÀÙ]+)\s+(\d{4}) tried from offset p: <<>> or <<[mois_txt, annee]>>
LclHeaderTail(u, p) ==
    LET a  == p + SpaceRun(u, p)
        l  == LetterRun(u, a)
        b  == a + l
        w  == SpaceRun(u, b)
        c  == b + w
    IN  IF l >= 1 /\ w >= 1 /\ DigitRun(u, c) >= 4
        THEN <<[mois_txt |-> Slice(u, a, b), annee |-> Slice(u, c, c + 4)]>>
        ELSE <<>>

\* PAIEMENTS PAR CARTE D[E']?\s*([A-ZÉÈÊÀÙ]+)\s+(\d{4}) tried at offset i
LclHeaderAt(u, i) ==
    LET lit == LclHeader \o " D"
        p   == i + Len(lit)
    IN  IF Slice(u, i, p) # lit THEN <<>>
        ELSE IF Ch(u, p) \in {"E", "'"} /\ LclHeaderTail(u, p + 1) # <<>>
        THEN LclHeaderTail(u, p + 1)
        ELSE LclHeaderTail(u, p)

\* re.search of the header pattern in line.upper()
LclHeaderSearch(u) ==
    LET hits == {i \in 0..(Len(u) - 1) : LclHeaderAt(u, i) # <<>>}
    IN  IF hits = {} THEN <<>> ELSE LclHeaderAt(u, Least(hits))

RECURSIVE LclFindMonthYear(_, _)
\* ETAPE 1 over lines[:30]: <<>> or the first header line's match
LclFindMonthYear(lines, idx) ==
    IF idx >= Len(lines) \/ idx >= 30 THEN <<>>
    ELSE LET u == Upper(lines[idx + 1])
         IN  IF Contains(u, LclHeader) /\ LclHeaderSearch(u) # <<>>
             THEN LclHeaderSearch(u)
             ELSE LclFindMonthYear(lines, idx + 1)

LclDefaultYear == "2025"

RECURSIVE LclFindSection(_, _, _)
\* ETAPE 2: [start_idx, end_idx]; start_idx is 0 for None
LclFindSection(lines, idx, start_idx) ==
    IF idx >= Len(lines) THEN [start_idx |-> start_idx, end_idx |-> Len(lines)]
    ELSE LET u  == Upper(lines[idx + 1])
             st == IF Contains(u, LclHeader) THEN idx + 1 ELSE start_idx
         IN  IF st # 0 /\ Contains(u, "TOTAUX")
             THEN [start_idx |-> st, end_idx |-> idx]
             ELSE LclFindSection(lines, idx + 1, st)

\* ETAPES 1-2: annee, mois_num and transaction_lines (found = FALSE: return [])
LclPrepare(lines) ==
    Pick({ [annee |-> IF my = <<>> THEN LclDefaultYear ELSE my[1].annee,
            mois_num |-> IF my = <<>> THEN NoneVal ELSE MoisDict(my[1].mois_txt),
            found |-> sec.start_idx # 0,
            tl |-> IF sec.start_idx # 0 /\ sec.start_idx < sec.end_idx
                   THEN SubSeq(lines, sec.start_idx + 1, sec.end_idx) ELSE <<>>]
           : my \in {LclFindMonthYear(lines, 0)}, sec \in {LclFindSection(lines, 0, 0)} })

LclSkipKeywords ==
    {"SOUS TOTAL", "LIBELLE", "VALEUR", "DEBIT", "CREDIT", "CARTE N°", "Page",
     "Crédit Lyonnais", "SIREN", "RCS", "ORIAS", "Indicatif", "Compte"}

\* LE\s+(\d{1,2})/(\d{1,2}) tried at offset i: <<>> or <<[jour, mois]>>
LclDateAt(line, i) ==
    LET w == SpaceRun(line, i + 2)
        a == i + 2 + w
        r == DigitRun(line, a)
        b == a + r + 1
        q == DigitRun(line, b)
    IN  IF /\ Slice(line, i, i + 2) = "LE" /\ w >= 1 /\ r \in {1, 2}
           /\ Ch(line, a + r) = "/" /\ q >= 1
        THEN <<[jour |-> Slice(line, a, a + r),
                mois |-> Slice(line, b, b + (IF q >= 2 THEN 2 ELSE 1))]>>
        ELSE <<>>

\* re.search(r'LE\s+(\d{1,2})/(\d{1,2})', line)
LclDateSearch(line) ==
    LET hits == {i \in 0..(Len(line) - 1) : LclDateAt(line, i) # <<>>}
    IN  IF hits = {} THEN <<>> ELSE LclDateAt(line, Least(hits))

\* annee_trans as the if / elif / else of the loop computes it
LclYear(annee, mois_num, mois) ==
    IF mois_num # NoneVal /\ ToInt(mois) < ToInt(mois_num[1]) THEN annee
    ELSE IF mois_num # NoneVal /\ ToInt(mois) > ToInt(mois_num[1])
    THEN (IF ToInt(mois_num[1]) = 12 /\ ToInt(mois) = 1
          THEN ToString(ToInt(annee) - 1) ELSE annee)
    ELSE annee

\* re.search(r'(\d{1,}[,\.]\d{2})\s*$', line): <<>> or <<[s, e]>>, e the end of group 1
LclAmountAtEnd(line) ==
    LET hits == {i \in 0..(Len(line) - 1) :
                   LET r == DigitRun(line, i)
                   IN  /\ r >= 1 /\ Ch(line, i + r) \in {",", "."}
                       /\ IsDigit(Ch(line, i + r + 1)) /\ IsDigit(Ch(line, i + r + 2))
                       /\ i + r + 3 + SpaceRun(line, i + r + 3) = Len(line)}
    IN  IF hits = {} THEN <<>>
        ELSE <<[s |-> Least(hits), e |-> Least(hits) + DigitRun(line, Least(hits)) + 3]>>

\* re.match(r'^(\d{1,}[,\.]\d{2})', next_line): <<>> or <<[s, e]>>
LclAmountAtStart(line) ==
    LET r == DigitRun(line, 0)
    IN  IF /\ r >= 1 /\ Ch(line, r) \in {",", "."}
           /\ IsDigit(Ch(line, r + 1)) /\ IsDigit(Ch(line, r + 2))
        THEN <<[s |-> 0, e |-> r + 3]>>
        ELSE <<>>

\* float(montant_match.group(1).replace(',', '.'))
LclMontant(line, m) == Float(ReplaceChar(Slice(line, m.s, m.e), ",", "."))

\* a variant that does not skip the line the amount was read from
LclAfterAmountLineStay(i) == i + 1

\* a variant that stays on the anchor line
LclAfterAmountLineSame(i) == i

\* i += 1 (line 332) and i += 1 (line 348): past the anchor line and the
\* line the amount was read from
LclAfterAmountLine(i) == i + 2

\* one iteration of the while loop on st = [i, tx]: the next [i, tx]
LclStep(ctx, st) ==
    LET tl   == ctx.tl
        i    == st.i
        line == Strip(tl[i + 1])
        dm   == LclDateSearch(line)
    IN  IF line = "" THEN [i |-> i + 1, tx |-> st.tx]
        ELSE IF AnyKeyword(line, LclSkipKeywords) THEN [i |-> i + 1, tx |-> st.tx]
        ELSE IF dm = <<>> THEN [i |-> i + 1, tx |-> st.tx]
        ELSE
          LET jour == ZFill2(dm[1].jour)
              mois == ZFill2(dm[1].mois)
              date_format == jour \o "/" \o mois \o "/" \o LclYear(ctx.annee, ctx.mois_num, mois)
              same == LclAmountAtEnd(line)
          IN  IF same # <<>>
              THEN LET libelle == Strip(Slice(line, 0, same[1].s))
                   IN  IF Len(libelle) >= 3
                       THEN [i |-> i + 1,
                             tx |-> Append(st.tx, [Date |-> date_format,
                                                   Libelle |-> libelle,
                                                   Montant |-> Debit(LclMontant(line, same[1]))])]
                       ELSE [i |-> i + 1, tx |-> st.tx]
              ELSE IF i + 1 < Len(tl)
              THEN LET next_line == Strip(tl[i + 2])
                       nm == LclAmountAtStart(next_line)
                   IN  IF nm # <<>> /\ Len(line) >= 3
                       THEN [i |-> LclAfterAmountLine(i),
                             tx |-> Append(st.tx, [Date |-> date_format,
                                                   Libelle |-> line,
                                                   Montant |-> Debit(LclMontant(next_line, nm[1]))])]
                       ELSE [i |-> i + 1, tx |-> st.tx]
              ELSE [i |-> i + 1, tx |-> st.tx]

RECURSIVE LclLoop(_, _)
LclLoop(ctx, st) ==
    IF st.i < Len(ctx.tl)
    THEN Pick({ LclLoop(ctx, n) : n \in {LclStep(ctx, st)} })
    ELSE st.tx

extract_lcl_transactions(lines) ==
    Pick({ IF ~ctx.found THEN <<>> ELSE LclLoop(ctx, [i |-> 0, tx |-> <<>>])
           : ctx \in {LclPrepare(lines)} })

(***************************************************************************)
(* parsers.extract_from_pdf                                                *)
(*                                                                         *)
(* A document is [opens, pages]: whether pdfplumber.open succeeds and what *)
(* page.extract_text() gives for each page ("" for None or no text).  The  *)
(* optical recognition outcome is [raises, pages]: whether                 *)
(* extract_text_from_scanned_pdf raises and the text read from each image. *)
(***************************************************************************)

\* below this stripped length the native text is replaced by recognition
OcrThreshold == 100

\* below this stripped length the text is insufficient
MinTextLength == 50

\* the positions of the pages on which page.extract_text() raises; a
\* document written without them has none
UnreadablePages(doc) == IF "bad" \in DOMAIN doc THEN doc.bad ELSE {}

\* page.extract_text() raises on one of the pages the loop reads
PageRaises(doc) == \E k \in UnreadablePages(doc) : k <= Len(doc.pages)

\* pdfplumber.open raises, or page.extract_text() does: the text is not read
NativeRaises(doc) == ~doc.opens \/ PageRaises(doc)

RECURSIVE NativeText(_)
\* for page in pdf.pages: if page_text: text += page_text + "\n"
NativeText(pages) ==
    IF pages = <<>> THEN ""
    ELSE (IF Head(pages) # "" THEN Head(pages) \o "\n" ELSE "")
         \o NativeText(Tail(pages))

RECURSIVE JoinPages(_)
\* '\n\n'.join(extracted_texts)
JoinPages(texts) ==
    IF texts = <<>> THEN ""
    ELSE IF Len(texts) = 1 THEN texts[1]
    ELSE texts[1] \o "\n\n" \o JoinPages(Tail(texts))

\* text_length < 100
NeedsOcr(text) == Len(Strip(text)) < OcrThreshold

\* lines 402-408: the text after the recognition attempt; a failure is
\* logged and the native text kept
OcrStep(text, ocr) == IF ocr.raises THEN text ELSE JoinPages(ocr.pages)

\* a variant that runs the recognition again after a failure
AfterOcrRetry(ocr) == IF ocr.raises THEN "ocr" ELSE "mincheck"

\* what follows the recognition attempt, failed or not: the minimum-text
\* check of line 411
AfterOcr(ocr) == "mincheck"

\* not text or len(text.strip()) < 50
TooShort(text) == text = "" \/ Len(Strip(text)) < MinTextLength

\* lines 430-437: the bank named to the language model, None without one
bank_hint(text) ==
    LET text_upper == Upper(text)
    IN  IF Contains(text_upper, "LCL") \/ Contains(text_upper, "CREDIT LYONNAIS")
        THEN Some("LCL")
        ELSE IF Contains(text_upper, "CREDIT AGRICOLE") THEN Some("CREDIT_AGRICOLE")
        ELSE IF Contains(text_upper, "BANQUE POPULAIRE") THEN Some("BANQUE_POPULAIRE")
        ELSE NoneVal

\* a variant that commits only to a list of two or more transactions
MistralTierOutcomeTwoOrMore(r) ==
    IF r.raised THEN "fallback"
    ELSE IF Len(r.tx) > 1 THEN "commit" ELSE "fallback"

\* lines 427-455 after the call: "commit" returns the list with the tag
\* MISTRAL_AI, "fallback" goes on to the layout parsers
MistralTierOutcome(r) ==
    IF r.raised THEN "fallback"
    ELSE IF Len(r.tx) > 0 THEN "commit" ELSE "fallback"

\* a variant that looks for BANQUE POPULAIRE before CREDIT AGRICOLE
DetectBankPopulaireFirst(text) ==
    LET text_upper == Upper(text)
    IN  IF Contains(text_upper, "BANQUE POPULAIRE") THEN "BP"
        ELSE IF Contains(text_upper, "CREDIT AGRICOLE") THEN "CA"
        ELSE IF Contains(text_upper, "CREDIT LYONNAIS") \/ Contains(text_upper, "LCL")
        THEN "LCL"
        ELSE IF \/ Contains(text_upper, "SOCIETE GENERALE")
                \/ Contains(text_upper, "SOCIÉTÉ GÉNÉRALE")
        THEN "SG"
        ELSE IF Contains(text_upper, "BNP") THEN "BNP"
        ELSE "UNKNOWN"

\* parsers.detect_bank_format
detect_bank_format(text) ==
    LET text_upper == Upper(text)
    IN  IF Contains(text_upper, "CREDIT AGRICOLE") THEN "CA"
        ELSE IF Contains(text_upper, "BANQUE POPULAIRE") THEN "BP"
        ELSE IF Contains(text_upper, "CREDIT LYONNAIS") \/ Contains(text_upper, "LCL")
        THEN "LCL"
        ELSE IF \/ Contains(text_upper, "SOCIETE GENERALE")
                \/ Contains(text_upper, "SOCIÉTÉ GÉNÉRALE")
        THEN "SG"
        ELSE IF Contains(text_upper, "BNP") THEN "BNP"
        ELSE "UNKNOWN"

RECURSIVE SplitLines(_)
\* [l.strip() for l in text.split('\n') if l.strip()]
SplitLines(text) ==
    LET breaks == {i \in 0..(Len(text) - 1) : Ch(text, i) = "\n"}
        first == IF breaks = {} THEN text ELSE Slice(text, 0, Least(breaks))
        rest == IF breaks = {} THEN <<>>
                ELSE SplitLines(Slice(text, Least(breaks) + 1, Len(text)))
    IN  (IF Strip(first) # "" THEN <<Strip(first)>> ELSE <<>>) \o rest

LayoutBanks == {"CA", "BP", "LCL"}

\* lines 471-478: the layout parser chosen by bank_type
LayoutParse(bank_type, text_lines) ==
    Pick({ IF bank_type = "CA" THEN extract_ca_transactions(lines)
           ELSE IF bank_type = "BP" THEN extract_bp_transactions(lines)
           ELSE IF bank_type = "LCL" THEN extract_lcl_transactions(lines)
           ELSE <<>>
           : lines \in {text_lines} })

\* a variant that returns the bank tag whatever the list
RegexTierReturnAlwaysBank(bank_type, transactions) ==
    [raised |-> FALSE, tx |-> transactions, tag |-> bank_type]

\* lines 480-493: the return after the layout parsers
RegexTierReturn(bank_type, transactions) ==
    IF Len(transactions) > 0
    THEN [raised |-> FALSE, tx |-> transactions, tag |-> bank_type]
    ELSE [raised |-> FALSE, tx |-> <<>>, tag |-> "ERROR"]

\* a variant that lets the exception leave the function
OuterExceptReraise(exc) == [raised |-> TRUE, tx |-> <<>>, tag |-> exc]

\* lines 495-497: except Exception: return [], "ERROR"
OuterExcept(exc) == [raised |-> FALSE, tx |-> <<>>, tag |-> "ERROR"]

\* extract_from_pdf(pdf_bytes) for a document, the outcome the recognition
\* would have, the language-model environment, and whether the layout
\* parser raises
extract_from_pdf(doc, ocr, llm, fault) ==
    IF NativeRaises(doc) THEN OuterExcept("native")
    ELSE Pick({
           IF TooShort(text) THEN [raised |-> FALSE, tx |-> <<>>, tag |-> "ERROR"]
           ELSE Pick({
               IF MistralTierOutcome(r) = "commit"
               THEN [raised |-> FALSE, tx |-> r.tx, tag |-> "MISTRAL_AI"]
               ELSE Pick({
                   IF fault /\ bank_type \in LayoutBanks THEN OuterExcept("layout")
                   ELSE Pick({ RegexTierReturn(bank_type, transactions)
                               : transactions \in {LayoutParse(bank_type, SplitLines(text))} })
                   : bank_type \in {detect_bank_format(text)} })
               : r \in {extract_with_mistral(llm)} })
           : text \in {IF NeedsOcr(NativeText(doc.pages))
                       THEN OcrStep(NativeText(doc.pages), ocr)
                       ELSE NativeText(doc.pages)} })

(***************************************************************************)
(* ocr_utils.is_scanned_pdf                                                *)
(***************************************************************************)

\* pdf.pages[:3]
ScanPages == 3

\* len(total_text.strip()) < 200
ScanMinChars == 200

\* len(words) < 50
ScanMinWords == 50

\* bank_words_found >= 2
ScanMinKeywords == 2

common_bank_words ==
    <<"BANQUE", "CREDIT", "COMPTE", "RELEVE", "TRANSACTION",
      "DEBIT", "CARTE", "PAIEMENT", "MONTANT", "DATE", "LCL">>

\* the characters of the class [a-zA-ZÀ-ÿ]: the 52 letters and every
\* character from U+00C0 to U+00FF, the signs × and ÷ among them
ScanLetters ==
    CharsOf("abcdefghijklmnopqrstuvwxyz")
    \cup CharsOf("ABCDEFGHIJKLMNOPQRSTUVWXYZ")
    \cup CharsOf("ÀÁÂÃÄÅÆÇÈÉÊËÌÍÎÏÐÑÒÓÔÕÖ×ØÙÚÛÜÝÞß")
    \cup CharsOf("àáâãäåæçèéêëìíîïðñòóôõö÷øùúûüýþÿ")

IsScanLetter(c) == c \in ScanLetters

\* the characters of \w (str.isalnum() or the underscore) among the first
\* 256: the 52 letters, the digits, the underscore, the letters from U+00C0
\* to U+00FF without × and ÷, and ª ² ³ µ ¹ º ¼ ½ ¾
WordChars ==
    (ScanLetters \ {"×", "÷"}) \cup Digits \cup {"_"} \cup CharsOf("ª²³µ¹º¼½¾")

\* \w, on whose edges \b holds
IsWordChar(c) == c \in WordChars

\* the 0-based offset after the run of letters that starts at offset i
LetterRunEnd(s, i) ==
    CHOOSE j \in (i + 1)..Len(s) :
        /\ ~IsScanLetter(Ch(s, j))
        /\ \A k \in (i + 1)..(j - 1) : IsScanLetter(Ch(s, k))

\* \b at offset p: of the characters before and after it, one is a word
\* character and the other is not
WordBoundary(s, p) == IsWordChar(Ch(s, p - 1)) # IsWordChar(Ch(s, p))

\* \b[a-zA-ZÀ-ÿ]{3,}\b matches inside the run of class characters from
\* offset a to offset b: two word boundaries of the run lie three or more
\* characters apart
RunHoldsWord(s, a, b) ==
    \E p, r \in a..b : WordBoundary(s, p) /\ WordBoundary(s, r) /\ r - p >= 3

\* len(re.findall(r'\b[a-zA-ZÀ-ÿ]{3,}\b', s)).  The match that starts at the
\* first boundary of a run is greedy and ends at the last one, so a maximal
\* run of class characters holds one match or none.
CountWords(s) ==
    Cardinality({i \in 0..(Len(s) - 1) :
        /\ IsScanLetter(Ch(s, i))
        /\ ~IsScanLetter(Ch(s, i - 1))
        /\ RunHoldsWord(s, i, LetterRunEnd(s, i))})

RECURSIVE ConcatPages(_)
\* total_text += page.extract_text() or ""
ConcatPages(pages) ==
    IF pages = <<>> THEN "" ELSE Head(pages) \o ConcatPages(Tail(pages))

\* sum(1 for word in common_bank_words if word in text_upper)
BankWordsFound(text_upper) ==
    Cardinality({k \in 1..Len(common_bank_words) :
                    Contains(text_upper, common_bank_words[k])})

\* pdfplumber.open raises, or extract_text raises on one of the pages
\* pdf.pages[:3] of a document that has pages
ScanRaises(doc) ==
    \/ ~doc.opens
    \/ \E k \in UnreadablePages(doc) : k <= ScanPages /\ k <= Len(doc.pages)

\* an except branch that answers True
ScanOnErrorScanned == TRUE

\* except Exception: return False
ScanOnError == FALSE

\* a variant that looks for the keywords before it counts the words
IsScannedKeywordsFirst(doc) ==
    IF ~doc.opens THEN ScanOnError
    ELSE IF Len(doc.pages) = 0 THEN TRUE
    ELSE IF ScanRaises(doc) THEN ScanOnError
    ELSE Pick({
           IF Len(Strip(total_text)) < ScanMinChars THEN TRUE
           ELSE IF BankWordsFound(Upper(total_text)) >= ScanMinKeywords THEN FALSE
           ELSE TRUE
           : total_text \in {ConcatPages(SubSeq(doc.pages, 1,
                 IF Len(doc.pages) < ScanPages THEN Len(doc.pages) ELSE ScanPages))} })

\* ocr_utils.is_scanned_pdf: a document that cannot be opened or read is
\* reported as not scanned (except Exception: return False)
is_scanned_pdf(doc) ==
    IF ~doc.opens THEN ScanOnError
    ELSE IF Len(doc.pages) = 0 THEN TRUE
    ELSE IF ScanRaises(doc) THEN ScanOnError
    ELSE Pick({
           IF Len(Strip(total_text)) < ScanMinChars THEN TRUE
           ELSE IF CountWords(total_text) < ScanMinWords THEN TRUE
           ELSE IF BankWordsFound(Upper(total_text)) >= ScanMinKeywords THEN FALSE
           ELSE TRUE
           : total_text \in {ConcatPages(SubSeq(doc.pages, 1,
                 IF Len(doc.pages) < ScanPages THEN Len(doc.pages) ELSE ScanPages))} })

(***************************************************************************)
(* backend-main.py: what upload_pdf and upload_pdf_guest call around       *)
(* extract_from_pdf                                                        *)
(***************************************************************************)

\* parsers.extract_text_from_pdf: the text, or HTTPException when the
\* document cannot be opened or one of its pages cannot be read
extract_text_from_pdf(doc) ==
    IF NativeRaises(doc) THEN [raised |-> TRUE, text |-> ""]
    ELSE [raised |-> FALSE, text |-> NativeText(doc.pages)]

\* the Scan Detector on the text it is given (spec.md 4.2): fewer than 200
\* characters, then fewer than 50 alphabetic tokens of three letters or
\* more, are scanned; otherwise two distinct domain keywords make a native
\* document.  The tokens and the keywords are those of ocr_utils.
ScanDetector(text) ==
    IF Len(text) < ScanMinChars THEN TRUE
    ELSE IF CountWords(text) < ScanMinWords THEN TRUE
    ELSE IF BankWordsFound(Upper(text)) >= ScanMinKeywords THEN FALSE
    ELSE TRUE

\* bank_detector.validate_statement, which is not among the sources: the
\* verdict spec.md 4.4 describes.  A text the Scan Detector classifies as
\* scanned is SCANNED before any signature search; otherwise the first
\* signature with a keyword in the text is selected, and none gives
\* BANK_NOT_SUPPORTED.  The signatures are taken to be those of the banks
\* that have a layout parser.
validate_statement(text) ==
    IF ScanDetector(text)
    THEN [compatible |-> FALSE, bank |-> "UNKNOWN", error_type |-> "SCANNED_PDF"]
    ELSE IF detect_bank_format(text) \in LayoutBanks
    THEN [compatible |-> TRUE, bank |-> detect_bank_format(text), error_type |-> ""]
    ELSE [compatible |-> FALSE, bank |-> "UNKNOWN", error_type |-> "BANK_NOT_SUPPORTED"]

\* the error kinds of a ValidationResult for which spec.md 4.4 gives no
\* rule (spec.md 3)
OtherErrorKinds == {"UNREADABLE", "UNKNOWN"}

\* what upload_pdf may be handed for a text: the verdict above, and for a
\* text that is not compatible also the verdict with one of the other error
\* kinds, or without the key error_type
ValidationResults(text) ==
    Pick({ IF v.compatible THEN {v}
           ELSE {v} \cup {[v EXCEPT !.error_type = k] : k \in OtherErrorKinds}
                \cup {[compatible |-> FALSE, bank |-> v.bank]}
           : v \in {validate_statement(text)} })

\* upload_pdf, line 507: validation_result.get('error_type', 'UNKNOWN')
ErrorType(validation_result) ==
    IF "error_type" \in DOMAIN validation_result
    THEN validation_result.error_type
    ELSE "UNKNOWN"

\* upload_pdf, line 513: if error_type != 'SCANNED_PDF'
RecordsFailure(error_type) == error_type # "SCANNED_PDF"

\* a variant that alerts for every failed conversion that is recorded
SendsAlertRecorded(error_type) == error_type # "SCANNED_PDF"

\* upload_pdf, line 537: if error_type == 'BANK_NOT_SUPPORTED'
SendsAlert(error_type) == error_type = "BANK_NOT_SUPPORTED"

\* the day, month and year fields of a date written with two slashes
ExcelDateFields(d) ==
    LET sl == {i \in 0..(Len(d) - 1) : Ch(d, i) = "/"}
        a == Least(sl)
        b == CHOOSE i \in sl : i # a
    IN  [dd |-> Slice(d, 0, a), mm |-> Slice(d, a + 1, b),
         yy |-> Slice(d, b + 1, Len(d))]

\* the digits of a day field, which %d also reads after one blank (" 5")
ExcelDay(dd) == IF Len(dd) = 2 /\ At(dd, 1) = " " THEN SubSeq(dd, 2, 2) ELSE dd

\* the first and the last day a nanosecond timestamp holds from midnight on,
\* 22/09/1677 and 11/04/2262, written year, month, day
MinStamp == 16770922
MaxStamp == 22620411

\* pd.to_datetime(d, format='%d/%m/%Y', errors='coerce') is a date: day and
\* month of one or two digits and a four-digit year between slashes, naming
\* a day that exists and that a nanosecond timestamp holds
ExcelDateOk(d) ==
    /\ Cardinality({i \in 0..(Len(d) - 1) : Ch(d, i) = "/"}) = 2
    /\ LET f == ExcelDateFields(d)
           day == ExcelDay(f.dd)
       IN  /\ Len(f.dd) \in {1, 2} /\ AllDigits(day)
           /\ Len(f.mm) \in {1, 2} /\ AllDigits(f.mm)
           /\ Len(f.yy) = 4 /\ AllDigits(f.yy)
           /\ ToInt(f.mm) >= 1 /\ ToInt(f.mm) <= 12 /\ ToInt(f.yy) >= 1
           /\ ToInt(day) >= 1
           /\ ToInt(day) <= DaysInMonth(ToInt(f.mm), ToInt(f.yy))
           /\ 10000 * ToInt(f.yy) + 100 * ToInt(f.mm) + ToInt(day) >= MinStamp
           /\ 10000 * ToInt(f.yy) + 100 * ToInt(f.mm) + ToInt(day) <= MaxStamp

\* df['Date'].dt.strftime('%d/%m/%Y') of a date that parsed
ExcelDateFormat(d) ==
    LET f == ExcelDateFields(d)
    IN  ZFill2(ExcelDay(f.dd)) \o "/" \o ZFill2(f.mm) \o "/" \o f.yy

\* parsers.generate_excel: None, or the rows written to the sheet
generate_excel(transactions) ==
    LET rows == SelectSeq(transactions, LAMBDA t : ExcelDateOk(t.Date))
    IN  IF transactions = <<>> \/ rows = <<>> THEN NoneVal
        ELSE <<[k \in 1..Len(rows) |->
                  [rows[k] EXCEPT !.Date = ExcelDateFormat(rows[k].Date)]]>>

(***************************************************************************)
(* Harness for _normalize_date: one day written in every format            *)
(***************************************************************************)

DayTexts   == {"00", "01", "28", "29", "30", "31", "32", "3a"}
MonthTexts == {"00", "01", "02", "04", "10", "12", "13"}
YearTexts  == {"0000", "1900", "2024", "2025"}
PadTexts   == {"", " "}

\* the three accepted writings, and writings that are not accepted
DateFormats == {"slash", "dash", "plain", "dot", "mixed", "short"}
AcceptedFormats == {"slash", "dash", "plain"}

Render(p, f) ==
    LET body ==
          CASE f = "slash" -> p.d \o "/" \o p.m \o "/" \o p.y
            [] f = "dash"  -> p.d \o "-" \o p.m \o "-" \o p.y
            [] f = "plain" -> p.d \o p.m \o p.y
            [] f = "dot"   -> p.d \o "." \o p.m \o "." \o p.y
            [] f = "mixed" -> p.d \o "/" \o p.m \o "-" \o p.y
            [] f = "short" -> p.d \o "/" \o p.m \o "/" \o SubSeq(p.y, 3, 4)
    IN  p.pad \o body \o p.pad

DateInit ==
    /\ nd_parts \in [d : DayTexts, m : MonthTexts, y : YearTexts, pad : PadTexts]
    /\ nd_in = [f \in DateFormats |-> Render(nd_parts, f)]
    /\ nd_out = [f \in DateFormats |-> NoneVal]
    /\ nd_again = [f \in DateFormats |-> NoneVal]
    /\ nd_pc = "start"

\* date_normalized = _normalize_date(t["date"]) on each writing
DateNormalize ==
    /\ nd_pc = "start"
    /\ nd_out' = [f \in DateFormats |-> NormalizeDate(nd_in[f])]
    /\ nd_pc' = "normalized"
    /\ UNCHANGED <<nd_parts, nd_in, nd_again>>
    /\ UNCHANGED notDate

\* _normalize_date applied to its own non-null results
DateRenormalize ==
    /\ nd_pc = "normalized"
    /\ nd_again' = [f \in DateFormats |->
                      IF nd_out[f] = NoneVal THEN NoneVal
                      ELSE NormalizeDate(nd_out[f][1])]
    /\ nd_pc' = "done"
    /\ UNCHANGED <<nd_parts, nd_in, nd_out>>
    /\ UNCHANGED notDate


(***************************************************************************)
(* Harness for the layout parsers: each parser run on a list of lines      *)
(***************************************************************************)

MaxLines == 2

\* lines of a dot-date statement: <date token><label><amount token>
CaLineParts ==
    [d : {"15.03", "45.99", ""},
     lab : {" BOULANGERIE PARIS ", " ", " TOTAL "},
     amt : {"12,50", "-7,05", ""}]

\* lines of a concatenated-date statement
BpLineParts ==
    [d : {"150325", "15032", ""},
     lab : {" CARREFOUR ", "", " NOM "},
     amt : {"12,50", "7,05 EUR", ""}]

LclHeaderLines ==
    {"PAIEMENTS PAR CARTE DE JANVIER 2025",
     "Paiements par carte de mars 2024",
     "RELEVE DE COMPTE"}

LclBodyLines ==
    {"LE 28/12 CARREFOUR 12,50",
     "LE 15/01 AUCHAN",
     "LE 3/4 X 1.00",
     "7,20 EUR",
     "LE 05/02 DEBIT 4,00",
     "9,99 DEBIT",
     "TOTAUX 19,70"}

SeqsUpTo(S, n) == UNION {[1..k -> S] : k \in 0..n}

RenderLine(p) == p.d \o p.lab \o p.amt

LayoutInit ==
    /\ lp_kind \in {"CA", "BP", "LCL"}
    /\ \/ /\ lp_kind = "CA"
          /\ lp_parts \in SeqsUpTo(CaLineParts, MaxLines)
          /\ lp_lines = [k \in 1..Len(lp_parts) |-> RenderLine(lp_parts[k])]
       \/ /\ lp_kind = "BP"
          /\ lp_parts \in SeqsUpTo(BpLineParts, MaxLines)
          /\ lp_lines = [k \in 1..Len(lp_parts) |-> RenderLine(lp_parts[k])]
       \/ /\ lp_kind = "LCL"
          /\ \E h \in LclHeaderLines, body \in SeqsUpTo(LclBodyLines, MaxLines) :
                /\ lp_parts = <<h>> \o body
                /\ lp_lines = <<h>> \o body
    /\ lp_i = 0
    /\ lp_tx = <<>>
    /\ lp_src = <<>>
    /\ lp_ctx = [annee |-> "", mois_num |-> NoneVal, found |-> FALSE, tl |-> <<>>]
    /\ lp_pc = "start"

\* transactions = [] and entry into the for loop of the dot-date and
\* concatenated-date parsers
LayoutBegin ==
    /\ lp_pc = "start" /\ lp_kind \in {"CA", "BP"}
    /\ lp_pc' = "loop"
    /\ UNCHANGED <<lp_kind, lp_parts, lp_lines, lp_i, lp_tx, lp_src, lp_ctx>>
    /\ UNCHANGED notLayout

\* one iteration of extract_ca_transactions' for loop
LayoutCaLine ==
    /\ lp_pc = "loop" /\ lp_kind = "CA" /\ lp_i < Len(lp_lines)
    /\ lp_tx' = lp_tx \o CaLine(lp_lines[lp_i + 1])
    /\ lp_src' = IF Len(lp_tx') > Len(lp_tx) THEN Append(lp_src, {lp_i}) ELSE lp_src
    /\ lp_i' = lp_i + 1
    /\ UNCHANGED <<lp_kind, lp_parts, lp_lines, lp_ctx, lp_pc>>
    /\ UNCHANGED notLayout

\* one iteration of extract_bp_transactions' for loop
LayoutBpLine ==
    /\ lp_pc = "loop" /\ lp_kind = "BP" /\ lp_i < Len(lp_lines)
    /\ lp_tx' = lp_tx \o BpLine(lp_lines[lp_i + 1])
    /\ lp_src' = IF Len(lp_tx') > Len(lp_tx) THEN Append(lp_src, {lp_i}) ELSE lp_src
    /\ lp_i' = lp_i + 1
    /\ UNCHANGED <<lp_kind, lp_parts, lp_lines, lp_ctx, lp_pc>>
    /\ UNCHANGED notLayout

\* extract_lcl_transactions, ETAPES 1 and 2 (return [] without a section)
LayoutLclPrepare ==
    /\ lp_pc = "start" /\ lp_kind = "LCL"
    /\ lp_ctx' = LclPrepare(lp_lines)
    /\ lp_pc' = IF lp_ctx'.found THEN "loop" ELSE "done"
    /\ UNCHANGED <<lp_kind, lp_parts, lp_lines, lp_i, lp_tx, lp_src>>
    /\ UNCHANGED notLayout

\* one iteration of extract_lcl_transactions' while loop
LayoutLclStep ==
    /\ lp_pc = "loop" /\ lp_kind = "LCL" /\ lp_i < Len(lp_ctx.tl)
    /\ LET st == LclStep(lp_ctx, [i |-> lp_i, tx |-> lp_tx])
       IN  /\ lp_i' = st.i /\ lp_tx' = st.tx
           /\ lp_src' = IF Len(st.tx) > Len(lp_tx)
                        THEN Append(lp_src, lp_i..(st.i - 1)) ELSE lp_src
    /\ UNCHANGED <<lp_kind, lp_parts, lp_lines, lp_ctx, lp_pc>>
    /\ UNCHANGED notLayout

\* return transactions
LayoutReturn ==
    /\ lp_pc = "loop"
    /\ lp_i >= (IF lp_kind = "LCL" THEN Len(lp_ctx.tl) ELSE Len(lp_lines))
    /\ lp_pc' = "done"
    /\ UNCHANGED <<lp_kind, lp_parts, lp_lines, lp_i, lp_tx, lp_src, lp_ctx>>
    /\ UNCHANGED notLayout

LayoutIdle ==
    /\ lp_kind = "" /\ lp_parts = <<>> /\ lp_lines = <<>> /\ lp_i = 0
    /\ lp_tx = <<>> /\ lp_src = <<>> /\ lp_ctx = <<>> /\ lp_pc = "idle"

DateIdle ==
    /\ nd_parts = <<>> /\ nd_in = <<>> /\ nd_out = <<>> /\ nd_again = <<>>
    /\ nd_pc = "idle"

(***************************************************************************)
(* extract_with_mistral run on written replies                             *)
(***************************************************************************)

MaxItems == 2

\* how a field is written in the reply, and the value it denotes (<<>> when
\* it denotes none)
MiDates ==
    { [txt |-> "\"30/10/2025\"", val |-> <<Text("30/10/2025")>>],
      [txt |-> "\"31-10-2025\"", val |-> <<Text("31/10/2025")>>],
      [txt |-> "\"31/13/2025\"", val |-> <<>>] }

MiLabels ==
    { [txt |-> "\" CAFE FRANCIS \"", val |-> <<Text("CAFE FRANCIS")>>] }

\* an item whose label is written with escapes and whose amount is written
\* with an exponent
MiEscaped ==
    [shape |-> "obj",
     d |-> [txt |-> "\"30/10/2025\"", val |-> <<Text("30/10/2025")>>],
     lab |-> [txt |-> "\"CAF\\u00c9 \\\"LE PARIS\\\"\"", val |-> <<Text("CAFÉ \"LE PARIS\"")>>],
     amt |-> [txt |-> "2.5e3", val |-> <<"2500.0">>]]

\* an item written with escapes of characters beyond U+00FF: the day 10 with
\* an Arabic-Indic zero, a label between an em space and an ideographic
\* space that holds the euro sign and a character outside the basic plane,
\* and the amount 12.5 in Arabic-Indic digits
MiUnicode ==
    [shape |-> "obj",
     d |-> [txt |-> "\"1\\u0660/10/2025\"",
            val |-> <<(<<49, 1632, 47, 49, 48, 47, 50, 48, 50, 53>>)>>],
     lab |-> [txt |-> "\"\\u2003CAF\\u00c9 \\u20ac\\ud83d\\ude00\\u3000\"",
              val |-> <<(<<67, 65, 70, 201, 32, 8364, 128512>>)>>],
     amt |-> [txt |-> "\"\\u0661\\u0662.5\"", val |-> <<"12.5">>]]

\* the day 30 written in Arabic-Indic digits, which strptime does not read
MiUnicodeDay ==
    [shape |-> "obj",
     d |-> [txt |-> "\"\\u0663\\u0660/10/2025\"", val |-> <<>>],
     lab |-> [txt |-> "\" CAFE FRANCIS \"", val |-> <<Text("CAFE FRANCIS")>>],
     amt |-> [txt |-> "-16.62", val |-> <<"-16.62">>]]

MiAmounts ==
    { [txt |-> "-16.62", val |-> <<"-16.62">>],
      [txt |-> "\"16,62\"", val |-> <<>>] }

MiItems ==
    [shape : {"obj"}, d : MiDates, lab : MiLabels, amt : MiAmounts]
    \cup {MiEscaped, MiUnicode, MiUnicodeDay, [shape |-> "nomontant"],
          [shape |-> "scalar"]}

\* an item that is valid on its own
MiValid ==
    [shape |-> "obj",
     d |-> [txt |-> "\"30/10/2025\"", val |-> <<Text("30/10/2025")>>],
     lab |-> [txt |-> "\" CAFE FRANCIS \"", val |-> <<Text("CAFE FRANCIS")>>],
     amt |-> [txt |-> "-16.62", val |-> <<"-16.62">>]]

\* the numbers of Python frames in use where extract_with_mistral is called
MiFrames == {1, 30}

\* items at the limits of json.loads: a date that is n arrays one inside the
\* other, which with the reply array and the object around it reaches the
\* depth the scanner has room for (one more when over), and an amount that
\* is an int of 4300 digits, the most int() converts (one more when over)
MiLimitItems(frames, over) ==
    { [shape |-> "nested",
       n |-> RecursionLimit - 4 - (frames + 1) - 2 + (IF over THEN 1 ELSE 0)],
      [shape |-> "bigint", n |-> 4300 + (IF over THEN 1 ELSE 0)] }

RenderItem(it) ==
    CASE it.shape = "obj" ->
            "{\"date\": " \o it.d.txt \o ", \"libelle\": " \o it.lab.txt
            \o ", \"montant\": " \o it.amt.txt \o "}"
      [] it.shape = "nomontant" -> "{\"date\": \"30/10/2025\", \"libelle\": \"X\"}"
      [] it.shape = "scalar" -> "5"
      [] it.shape = "nested" ->
            "{\"date\": " \o Repeat("[", it.n) \o Repeat("]", it.n)
            \o ", \"libelle\": \"X\", \"montant\": 1}"
      [] it.shape = "bigint" ->
            "{\"date\": \"30/10/2025\", \"libelle\": \"X\", \"montant\": "
            \o Repeat("9", it.n) \o "}"

RECURSIVE RenderItems(_)
RenderItems(items) ==
    IF items = <<>> THEN ""
    ELSE IF Len(items) = 1 THEN RenderItem(items[1])
    ELSE RenderItem(items[1]) \o ", " \o RenderItems(Tail(items))

MiWraps == {"plain", "fenced", "prose", "trailing"}

RenderReply(r) ==
    LET a == "[" \o RenderItems(r.items) \o "]"
    IN  CASE r.kind = "nocontent" -> NoneVal
          [] r.kind = "noarray" -> Some("Aucune transaction visible.")
          [] r.kind = "malformed" -> Some("[{\"date\": \"30/10/2025\", ]")
          [] r.wrap = "plain" -> Some(a)
          [] r.wrap = "fenced" -> Some(Fence \o "json\n" \o a \o "\n" \o Fence)
          [] r.wrap = "prose" -> Some("Voici le JSON :\n" \o a \o "\n")
          [] r.wrap = "trailing" -> Some(a \o "\n(voir la note [1])")

\* the replies: arrays of up to MaxItems items in each wrapping, the replies
\* without content, without array and with malformed JSON, and the arrays
\* that hold a valid item next to an item at a limit of json.loads
MiReplies ==
    [kind : {"array"}, wrap : MiWraps, items : SeqsUpTo(MiItems, MaxItems),
     frames : {1}, over : {FALSE}]
    \cup [kind : {"nocontent", "noarray", "malformed"}, wrap : {"plain"},
          items : {<<>>}, frames : {1}, over : {FALSE}]
    \cup UNION { UNION { UNION {
            { [kind |-> "limit", wrap |-> "plain", items |-> <<MiValid, it>>,
               frames |-> f, over |-> o],
              [kind |-> "limit", wrap |-> "plain", items |-> <<it, MiValid>>,
               frames |-> f, over |-> o] }
            : it \in MiLimitItems(f, o) } : o \in BOOLEAN } : f \in MiFrames }

\* the classes of what the client or the completion call raises
MiExceptions == {"Exception", "JSONDecodeError"}

MistralInit ==
    /\ mi_reply \in MiReplies
    /\ \E key \in BOOLEAN, call \in {"ok", "raise"}, exc \in MiExceptions \cup {""} :
          /\ (call = "ok") <=> (exc = "")
          /\ (~key \/ call = "raise")
                => (mi_reply.wrap = "plain" /\ Len(mi_reply.items) <= 1)
          /\ mi_env = [key |-> key, call |-> call, exc |-> exc,
                       content |-> RenderReply(mi_reply),
                       frames |-> mi_reply.frames]
    /\ mi_raw = <<>> /\ mi_idx = 0 /\ mi_tx = <<>> /\ mi_rejected = 0
    /\ mi_ret = <<>> /\ mi_raised = FALSE
    /\ mi_pc = "start"

\* lines 38-41
MistralCheckKey ==
    /\ mi_pc = "start"
    /\ IF MistralKeyCheck(mi_env) = "raise"
       THEN mi_raised' = TRUE /\ mi_pc' = "done"
       ELSE mi_raised' = FALSE /\ mi_pc' = "call"
    /\ UNCHANGED <<mi_reply, mi_env, mi_raw, mi_idx, mi_tx, mi_rejected, mi_ret>>
    /\ UNCHANGED notMistral

\* lines 87-124 and, when they raise, the except clauses
MistralCall ==
    /\ mi_pc = "call"
    /\ \E p \in {MistralParse(mi_env)} :
           IF p.out = "raw"
           THEN /\ mi_raw' = p.raw /\ mi_pc' = "loop"
                /\ UNCHANGED <<mi_ret, mi_raised>>
           ELSE /\ IF p.out = "exc" /\ MistralExcept(p.exc, p.bound) = "raise"
                   THEN mi_raised' = TRUE /\ mi_ret' = mi_ret
                   ELSE mi_raised' = FALSE /\ mi_ret' = <<(<<>>)>>
                /\ mi_pc' = "done"
                /\ UNCHANGED mi_raw
    /\ UNCHANGED <<mi_reply, mi_env, mi_idx, mi_tx, mi_rejected>>
    /\ UNCHANGED notMistral

\* one iteration of lines 133-177
MistralValidate ==
    /\ mi_pc = "loop" /\ mi_idx < Len(mi_raw)
    /\ \E st \in {MistralStep(mi_raw, [idx |-> mi_idx, tx |-> mi_tx,
                                       rejected |-> mi_rejected])} :
           mi_idx' = st.idx /\ mi_tx' = st.tx /\ mi_rejected' = st.rejected
    /\ UNCHANGED <<mi_reply, mi_env, mi_raw, mi_ret, mi_raised, mi_pc>>
    /\ UNCHANGED notMistral

\* line 190
MistralReturn ==
    /\ mi_pc = "loop" /\ mi_idx = Len(mi_raw)
    /\ mi_ret' = <<mi_tx>>
    /\ mi_pc' = "done"
    /\ UNCHANGED <<mi_reply, mi_env, mi_raw, mi_idx, mi_tx, mi_rejected, mi_raised>>
    /\ UNCHANGED notMistral

PipeIdle ==
    /\ px_entry = "" /\ px_doc = <<>> /\ px_ocr = <<>> /\ px_llm = <<>>
    /\ px_fault = FALSE /\ px_val = <<>> /\ px_log = <<>>
    /\ px_text = "" /\ px_stages = <<>> /\ px_mi = <<>> /\ px_hint = <<>>
    /\ px_re = <<>> /\ px_ret = <<>> /\ px_resp = "" /\ px_pc = "idle"
    /\ px_calls = [ocr |-> 0, llm |-> 0]

MistralIdle ==
    /\ mi_reply = <<>> /\ mi_env = <<>> /\ mi_raw = <<>> /\ mi_idx = 0
    /\ mi_tx = <<>> /\ mi_rejected = 0 /\ mi_ret = <<>> /\ mi_raised = FALSE
    /\ mi_pc = "idle"

MistralNext == MistralCheckKey \/ MistralCall \/ MistralValidate \/ MistralReturn

InitMistral == MistralInit /\ DateIdle /\ LayoutIdle /\ PipeIdle /\ AuxIdle

SpecMistral == InitMistral /\ [][MistralNext]_vars

(***************************************************************************)
(* One request: a handler receives a document and runs extract_from_pdf    *)
(***************************************************************************)

\* the transactions as generate_excel reads their dates: the rows of the
\* language-model tier hold texts, whose digits the date format reads by
\* their value
SheetInput(ret) ==
    IF ret.tag = "MISTRAL_AI"
    THEN [k \in 1..Len(ret.tx) |-> [ret.tx[k] EXCEPT !.Date = FoldDigits(@)]]
    ELSE ret.tx

\* three lines of a notice, which hold no date, no amount and no bank
Notice ==
    "Nous vous remercions de votre confiance et restons a votre disposition\n"
    \o "Pour toute question merci de contacter votre conseiller habituel en agence\n"
    \o "Conservez ce document sans limitation de duree comme justificatif"

TextCA ==
    "CREDIT AGRICOLE ILE DE FRANCE\n"
    \o "RELEVE DE COMPTE - MONSIEUR JEAN DUPONT\n"
    \o "RUE DE LA REPUBLIQUE A PARIS\n"
    \o "Operations effectuees par carte bancaire au cours du mois\n"
    \o "Jour Operation Debit en euros\n"
    \o "Les sommes sont exprimees en euros\n"
    \o "15.03 BOULANGERIE PARIS 12,50\n"
    \o "20.03 PHARMACIE 7,05"

TextCABadDate ==
    "CREDIT AGRICOLE ILE DE FRANCE\n"
    \o "RELEVE DE COMPTE - MONSIEUR JEAN DUPONT\n"
    \o "RUE DE LA REPUBLIQUE A PARIS\n"
    \o "Operations effectuees par carte bancaire au cours du mois\n"
    \o "Jour Operation Debit en euros\n"
    \o "Les sommes sont exprimees en euros\n"
    \o "45.99 FOO 1,00"

TextCANoLines ==
    "CREDIT AGRICOLE ILE DE FRANCE\n"
    \o "RELEVE DE COMPTE - MONSIEUR JEAN DUPONT\n"
    \o "RUE DE LA REPUBLIQUE A PARIS\n"
    \o "Operations effectuees par carte bancaire au cours du mois\n"
    \o "Jour Operation Debit en euros\n"
    \o "Les sommes sont exprimees en euros\n"
    \o "Aucune operation ce mois-ci"

TextBP ==
    "BANQUE POPULAIRE RIVES DE PARIS\n"
    \o "RELEVE DE COMPTE - MADAME ANNE MARTIN\n"
    \o "AVENUE DES LILAS A NANTES\n"
    \o "Operations effectuees par carte bancaire au cours du mois\n"
    \o "Jour Operation Debit en euros\n"
    \o "Les sommes sont exprimees en euros\n"
    \o "150325 CARREFOUR 12,50\n"
    \o "160325 NOM 3,00"

TextLCLHead ==
    "LCL BANQUE ET ASSURANCE\n"
    \o "RELEVE DE COMPTE - MONSIEUR PAUL DURAND\n"
    \o "PLACE DU MARCHE A LYON\n"
    \o "Operations effectuees au cours du mois ecoule\n"
    \o "Les sommes sont exprimees en euros\n"

TextLCLBody ==
    "PAIEMENTS PAR CARTE DE JANVIER 2025\n"
    \o "LE 28/12 CARREFOUR 12,50\n"
    \o "LE 15/01 AUCHAN\n"
    \o "7,20 EUR\n"
    \o "TOTAUX 19,70"

TextUnknown ==
    "BANQUE DU HAVRE ET DE LA MANCHE\n"
    \o "RELEVE DE COMPTE - MADAME LEA PETIT\n"
    \o "QUAI DES BRUMES AU HAVRE\n"
    \o "Operations effectuees par carte bancaire au cours du mois\n"
    \o "Jour Operation Debit en euros\n"
    \o "Les sommes sont exprimees en euros\n"
    \o "15.03 BOULANGERIE PARIS 12,50"

TextShort ==
    "CREDIT AGRICOLE\n"
    \o "RELEVE DE COMPTE\n"
    \o "15.03 BOULANGERIE PARIS 12,50\n"
    \o "20.03 PHARMACIE 7,05"

\* a dot-date statement with a withdrawal at a cash machine of another bank
TextCAWithLCL == TextCA \o "\n21.03 RETRAIT DAB LCL 40,00"

TextTiny ==
    "CREDIT AGRICOLE\n"
    \o "15.03 CAFE 2,00"

\* statements of more than 50 words
TextCALong == TextCA \o "\n" \o Notice

TextUnknownLong == TextUnknown \o "\n" \o Notice

PipeDocs ==
    { [opens |-> FALSE, pages |-> <<>>],
      [opens |-> TRUE, pages |-> <<TextCA>>],
      [opens |-> TRUE, pages |-> <<TextCAWithLCL>>],
      [opens |-> TRUE, pages |-> <<TextCABadDate>>],
      [opens |-> TRUE, pages |-> <<TextCANoLines>>],
      [opens |-> TRUE, pages |-> <<TextBP>>],
      [opens |-> TRUE, pages |-> <<TextLCLHead, TextLCLBody>>],
      [opens |-> TRUE, pages |-> <<TextUnknown>>],
      [opens |-> TRUE, pages |-> <<TextShort>>],
      [opens |-> TRUE, pages |-> <<TextTiny>>],
      [opens |-> TRUE, pages |-> <<"">>],
      [opens |-> TRUE, pages |-> <<TextCALong>>],
      [opens |-> TRUE, pages |-> <<TextUnknownLong>>],
      [opens |-> TRUE, pages |-> <<TextCALong, TextBP>>, bad |-> {2}] }

PipeOcrs ==
    { [raises |-> TRUE, pages |-> <<>>],
      [raises |-> FALSE, pages |-> <<"">>],
      [raises |-> FALSE, pages |-> <<TextCA>>] }

PipeReplies ==
    { "[]",
      "Aucune transaction visible.",
      "[{\"date\": \"30/10/2025\", \"libelle\": \"CERTAS\", \"montant\": -16.62}]",
      Fence \o "json\n[{\"date\": \"30/10/2025\", \"libelle\": \"X\"}, "
        \o "{\"date\": \"31-10-2025\", \"libelle\": \" CAFE FRANCIS \", \"montant\": \"23.40\"}]\n"
        \o Fence,
      "[{\"date\": \"01/11/2025\", \"libelle\": \"  \", \"montant\": 2500}]",
      "[{\"date\": \"30/10/2025\", \"libelle\": \"CAF\\u00c9 \\u20ac\\ud83d\\ude00\", "
        \o "\"montant\": \"\\u0661\\u0662.5\"}]" }

\* the number of Python frames in use where extract_from_pdf calls
\* extract_with_mistral: two when extract_from_pdf is called from a module,
\* more under a handler
PipeFrames == 2

PipeDeepFrames == 30

\* replies that hold a valid item and an item at a limit of json.loads
PipeLimitLlms ==
    { [key |-> TRUE, call |-> "ok", exc |-> "",
       content |-> RenderReply([kind |-> "limit", wrap |-> "plain",
                                items |-> <<MiValid, it>>]),
       frames |-> PipeDeepFrames]
      : it \in MiLimitItems(PipeDeepFrames, TRUE)
               \cup {x \in MiLimitItems(PipeDeepFrames, FALSE) : x.shape = "nested"} }

PipeLlms ==
    [key : {TRUE}, call : {"ok"}, exc : {""},
     content : {Some(r) : r \in PipeReplies}, frames : {PipeFrames}]
    \cup { [key |-> FALSE, call |-> "ok", exc |-> "", content |-> Some("[]"),
            frames |-> PipeFrames],
           [key |-> TRUE, call |-> "raise", exc |-> "Exception", content |-> NoneVal,
            frames |-> PipeFrames],
           [key |-> TRUE, call |-> "raise", exc |-> "JSONDecodeError",
            content |-> NoneVal, frames |-> PipeFrames] }
    \cup PipeLimitLlms

PipeInit ==
    /\ px_entry \in {"upload", "guest"}
    /\ px_doc \in PipeDocs
    /\ px_ocr \in PipeOcrs
    /\ px_llm \in PipeLlms
    /\ px_fault \in BOOLEAN
    /\ px_llm \in PipeLimitLlms => (px_ocr.raises /\ ~px_fault)
    /\ px_val = <<>> /\ px_log = <<>>
    /\ px_calls = [ocr |-> 0, llm |-> 0]
    /\ px_text = "" /\ px_stages = <<>> /\ px_mi = <<>> /\ px_hint = <<>>
    /\ px_re = <<>>
    /\ px_ret = <<>> /\ px_resp = ""
    /\ px_pc = "start"

\* upload_pdf, lines 499-509 and 563-568: the text is read and validated
\* before anything else; an exception here is answered with a 400
UploadValidate ==
    /\ px_pc = "start" /\ px_entry = "upload"
    /\ \E t \in {extract_text_from_pdf(px_doc)} :
          IF t.raised
          THEN /\ px_val' = <<[raised |-> TRUE, text |-> "", result |-> <<>>]>>
               /\ px_resp' = "HTTP_400" /\ px_pc' = "done"
          ELSE \E validation_result \in ValidationResults(t.text) :
               /\ px_val' = <<[raised |-> FALSE, text |-> t.text,
                               result |-> validation_result]>>
               /\ px_resp' = px_resp
               /\ px_pc' = IF validation_result.compatible THEN "extract"
                           ELSE "incompatible"
    /\ UNCHANGED <<pipeInputs, px_calls, px_log, px_text, px_stages, px_mi, px_hint, px_re, px_ret>>
    /\ UNCHANGED notPipe

\* upload_pdf, lines 513-534: db.add, db.commit of the failed conversion
UploadRecordFailure ==
    /\ px_pc = "incompatible"
    /\ RecordsFailure(ErrorType(px_val[1].result))
    /\ px_log' = Append(px_log, "failed_conversion")
    /\ px_pc' = "recorded"
    /\ UNCHANGED <<pipeInputs, px_calls, px_val, px_text, px_stages, px_mi, px_hint, px_re, px_ret, px_resp>>
    /\ UNCHANGED notPipe

\* upload_pdf, lines 537-546: await send_discord_notification(...)
UploadAlert ==
    /\ px_pc = "recorded"
    /\ SendsAlert(ErrorType(px_val[1].result))
    /\ px_log' = Append(px_log, "discord")
    /\ px_pc' = "alerted"
    /\ UNCHANGED <<pipeInputs, px_calls, px_val, px_text, px_stages, px_mi, px_hint, px_re, px_ret, px_resp>>
    /\ UNCHANGED notPipe

\* upload_pdf, lines 547-561: the validation result is the response
UploadReject ==
    /\ \/ px_pc = "incompatible" /\ ~RecordsFailure(ErrorType(px_val[1].result))
       \/ px_pc = "recorded" /\ ~SendsAlert(ErrorType(px_val[1].result))
       \/ px_pc = "alerted"
    /\ px_resp' = ErrorType(px_val[1].result)
    /\ px_pc' = "done"
    /\ UNCHANGED <<pipeInputs, px_calls, px_val, px_log, px_text, px_stages, px_mi, px_hint, px_re, px_ret>>
    /\ UNCHANGED notPipe

\* upload_pdf_guest, lines 415-441: the file goes to extract_from_pdf as read
GuestAccept ==
    /\ px_pc = "start" /\ px_entry = "guest"
    /\ px_pc' = "extract"
    /\ UNCHANGED <<pipeInputs, px_calls, px_val, px_log, px_text, px_stages, px_mi, px_hint, px_re, px_ret, px_resp>>
    /\ UNCHANGED notPipe

\* extract_from_pdf, lines 384-398: native text
PipeNative ==
    /\ px_pc = "extract"
    /\ IF NativeRaises(px_doc)
       THEN /\ px_ret' = <<OuterExcept("native")>>
            /\ px_pc' = "returned"
            /\ UNCHANGED <<px_text, px_stages>>
       ELSE /\ px_text' = NativeText(px_doc.pages)
            /\ px_stages' = Append(px_stages, "native")
            /\ px_pc' = IF NeedsOcr(px_text') THEN "ocr" ELSE "mincheck"
            /\ px_ret' = px_ret
    /\ UNCHANGED <<pipeInputs, px_calls, px_val, px_log, px_mi, px_hint, px_re, px_resp>>
    /\ UNCHANGED notPipe

\* lines 401-408: optical recognition
PipeOcr ==
    /\ px_pc = "ocr"
    /\ px_stages' = Append(px_stages, "ocr")
    /\ px_text' = OcrStep(px_text, px_ocr)
    /\ px_pc' = AfterOcr(px_ocr)
    /\ px_calls' = [px_calls EXCEPT !.ocr = @ + 1]
    /\ UNCHANGED <<pipeInputs, px_val, px_log, px_mi, px_hint, px_re, px_ret, px_resp>>
    /\ UNCHANGED notPipe

\* lines 411-413: minimum of text
PipeMinCheck ==
    /\ px_pc = "mincheck"
    /\ IF TooShort(px_text)
       THEN /\ px_ret' = <<[raised |-> FALSE, tx |-> <<>>, tag |-> "ERROR"]>>
            /\ px_pc' = "returned"
       ELSE px_ret' = px_ret /\ px_pc' = "mistral"
    /\ UNCHANGED <<pipeInputs, px_calls, px_val, px_log, px_text, px_stages, px_mi, px_hint, px_re, px_resp>>
    /\ UNCHANGED notPipe

\* lines 426-455: the language-model tier
PipeMistral ==
    /\ px_pc = "mistral"
    /\ px_stages' = Append(px_stages, "mistral")
    /\ \E r \in {extract_with_mistral(px_llm)} :
           /\ px_mi' = <<r>>
           /\ px_hint' = <<bank_hint(px_text)>>
           /\ IF MistralTierOutcome(r) = "commit"
              THEN /\ px_ret' = <<[raised |-> FALSE, tx |-> r.tx, tag |-> "MISTRAL_AI"]>>
                   /\ px_pc' = "returned"
              ELSE px_ret' = px_ret /\ px_pc' = "regex"
    /\ px_calls' = [px_calls EXCEPT !.llm = @ + MistralCalls(px_llm)]
    /\ UNCHANGED <<pipeInputs, px_val, px_log, px_text, px_re, px_resp>>
    /\ UNCHANGED notPipe

\* lines 461-497: the layout-parser tier and the final return
PipeRegex ==
    /\ px_pc = "regex"
    /\ px_stages' = Append(px_stages, "regex")
    /\ LET bank_type == detect_bank_format(px_text)
           lines == SplitLines(px_text)
       IN  IF px_fault /\ bank_type \in LayoutBanks
           THEN /\ px_re' = <<[bank |-> bank_type, raised |-> TRUE, tx |-> <<>>]>>
                /\ px_ret' = <<OuterExcept("layout")>>
           ELSE \E tx \in {LayoutParse(bank_type, lines)} :
                /\ px_re' = <<[bank |-> bank_type, raised |-> FALSE, tx |-> tx]>>
                /\ px_ret' = <<RegexTierReturn(bank_type, tx)>>
    /\ px_pc' = "returned"
    /\ UNCHANGED <<pipeInputs, px_calls, px_val, px_log, px_text, px_mi, px_hint, px_resp>>
    /\ UNCHANGED notPipe

\* upload_pdf, lines 605-621: no transaction or no sheet is a 400
UploadRespond ==
    /\ px_pc = "returned" /\ px_entry = "upload"
    /\ px_resp' = IF px_ret[1].raised THEN "HTTP_500"
                  ELSE IF Len(px_ret[1].tx) = 0 THEN "HTTP_400"
                  ELSE IF generate_excel(SheetInput(px_ret[1])) = NoneVal THEN "HTTP_400"
                  ELSE "success"
    /\ px_pc' = "done"
    /\ UNCHANGED <<pipeInputs, px_calls, px_val, px_log, px_text, px_stages, px_mi, px_hint, px_re, px_ret>>
    /\ UNCHANGED notPipe

\* upload_pdf_guest, lines 442-447: no sheet is a 400
GuestRespond ==
    /\ px_pc = "returned" /\ px_entry = "guest"
    /\ px_resp' = IF px_ret[1].raised THEN "HTTP_500"
                  ELSE IF generate_excel(SheetInput(px_ret[1])) = NoneVal THEN "HTTP_400"
                  ELSE "success"
    /\ px_pc' = "done"
    /\ UNCHANGED <<pipeInputs, px_calls, px_val, px_log, px_text, px_stages, px_mi, px_hint, px_re, px_ret>>
    /\ UNCHANGED notPipe

Next ==
    \/ UploadValidate \/ UploadRecordFailure \/ UploadAlert \/ UploadReject
    \/ GuestAccept
    \/ PipeNative \/ PipeOcr \/ PipeMinCheck \/ PipeMistral \/ PipeRegex
    \/ UploadRespond \/ GuestRespond

Init == PipeInit /\ DateIdle /\ LayoutIdle /\ MistralIdle /\ AuxIdle

Spec == Init /\ [][Next]_vars

LayoutNext ==
    \/ LayoutBegin \/ LayoutCaLine \/ LayoutBpLine
    \/ LayoutLclPrepare \/ LayoutLclStep \/ LayoutReturn

InitLayout == LayoutInit /\ DateIdle /\ MistralIdle /\ PipeIdle /\ AuxIdle

SpecLayout == InitLayout /\ [][LayoutNext]_vars

DateNext == DateNormalize \/ DateRenormalize

InitDate == DateInit /\ LayoutIdle /\ MistralIdle /\ PipeIdle /\ AuxIdle

SpecDate == InitDate /\ [][DateNext]_vars

(***************************************************************************)
(* Harness for generate_excel: rows whose dates are written from a day, a  *)
(* month and a year                                                        *)
(***************************************************************************)

MaxRows == 2

ExDayTexts == {"1", " 2", "29", "30", "45", "3a"}
ExMonthTexts == {"02", "03", "99"}
ExYearTexts == {"2024", "2025", "2263"}

ExRowParts == [d : ExDayTexts, m : ExMonthTexts, y : ExYearTexts]

\* the transaction a parser tier hands over for these components
ExRow(p) ==
    [Date |-> p.d \o "/" \o p.m \o "/" \o p.y,
     Libelle |-> "CAFE " \o p.d \o p.m,
     Montant |-> "-12.5"]

ExcelInit ==
    /\ ex_parts \in SeqsUpTo(ExRowParts, MaxRows)
    /\ ex_in = [k \in 1..Len(ex_parts) |-> ExRow(ex_parts[k])]
    /\ ex_out = <<>>
    /\ ex_pc = "start"

\* excel_bytes = generate_excel(transactions)
ExcelGenerate ==
    /\ ex_pc = "start"
    /\ ex_out' = generate_excel(ex_in)
    /\ ex_pc' = "done"
    /\ UNCHANGED <<ex_parts, ex_in>>
    /\ UNCHANGED notExcel

ExcelNext == ExcelGenerate

InitExcel ==
    ExcelInit /\ DateIdle /\ LayoutIdle /\ MistralIdle /\ PipeIdle /\ ScanIdle /\ BankIdle /\ SideIdle

SpecExcel == InitExcel /\ [][ExcelNext]_vars

(***************************************************************************)
(* Harness for is_scanned_pdf: documents whose pages are written from      *)
(* blocks of known length, word count and keywords                         *)
(***************************************************************************)

MaxPages == 4

ScanBlocks == {"prose", "kw2", "kw1", "empty"}

\* the text of a page; a page without text is ""
ScanPage(b) ==
    CASE b = "prose" -> "Madame, Monsieur, veuillez trouver ci-joint le détail des op"
                   \o "érations enregistrées pendant la période écoulée; a1b toute "
                   \o "réclamation doit parvenir sous trente jours à vôtre conseill"
                   \o "er français, agence principale du centre ville\n"
      [] b = "kw2" -> "releve de compte\n"
      [] b = "kw1" -> "banque Banque\n"
      [] b = "empty" -> ""

ScanInit ==
    /\ sc_parts \in SeqsUpTo(ScanBlocks, MaxPages)
    /\ sc_doc \in {[opens |-> o, bad |-> b,
                     pages |-> [k \in 1..Len(sc_parts) |-> ScanPage(sc_parts[k])]]
                    : o \in IF sc_parts = <<>> THEN BOOLEAN ELSE {TRUE},
                      b \in IF sc_parts = <<>> THEN {{}} ELSE {{}, {Len(sc_parts)}}}
    /\ sc_out = <<>>
    /\ sc_pc = "start"

\* is_scanned = is_scanned_pdf(pdf_bytes)
ScanDetect ==
    /\ sc_pc = "start"
    /\ sc_out' = <<is_scanned_pdf(sc_doc)>>
    /\ sc_pc' = "done"
    /\ UNCHANGED <<sc_parts, sc_doc>>
    /\ UNCHANGED notScan

ScanNext == ScanDetect

InitScan ==
    ScanInit /\ DateIdle /\ LayoutIdle /\ MistralIdle /\ PipeIdle /\ ExcelIdle /\ BankIdle /\ SideIdle

SpecScan == InitScan /\ [][ScanNext]_vars

(***************************************************************************)
(* Harness for detect_bank_format: texts written from fragments that name  *)
(* a bank or none                                                          *)
(***************************************************************************)

MaxFragments == 3

BankFragments ==
    {"Credit Agricole", "banque populaire", "Credit Lyonnais", "lcl",
     "Société Générale", "BNP Paribas", "La Poste"}

RECURSIVE JoinFragments(_)
JoinFragments(parts) ==
    IF parts = <<>> THEN ""
    ELSE IF Len(parts) = 1 THEN parts[1]
    ELSE parts[1] \o " - " \o JoinFragments(Tail(parts))

BankInit ==
    /\ bk_parts \in SeqsUpTo(BankFragments, MaxFragments)
    /\ bk_text = JoinFragments(bk_parts)
    /\ bk_out = ""
    /\ bk_pc = "start"

\* bank_type = detect_bank_format(text)
BankDetect ==
    /\ bk_pc = "start"
    /\ bk_out' = detect_bank_format(bk_text)
    /\ bk_pc' = "done"
    /\ UNCHANGED <<bk_parts, bk_text>>
    /\ UNCHANGED notBank

BankNext == BankDetect

InitBank ==
    BankInit /\ DateIdle /\ LayoutIdle /\ MistralIdle /\ PipeIdle /\ ExcelIdle /\ ScanIdle /\ SideIdle

SpecBank == InitBank /\ [][BankNext]_vars

(***************************************************************************)
(* C7                                                                      *)
(***************************************************************************)

\* the claim's notion of a real calendar day, from the written components
RealDay(p) ==
    /\ AllDigits(p.d) /\ AllDigits(p.m) /\ AllDigits(p.y)
    /\ LET d == ToInt(p.d)
           m == ToInt(p.m)
           y == ToInt(p.y)
       IN  /\ y >= 1
           /\ \/ m \in {1, 3, 5, 7, 8, 10, 12} /\ d \in 1..31
              \/ m \in {4, 6, 9, 11} /\ d \in 1..30
              \/ m = 2 /\ d \in 1..28
              \/ m = 2 /\ d = 29 /\ y % 4 = 0 /\ (y % 100 # 0 \/ y % 400 = 0)

\* C7: the same day written DDMMYYYY, DD-MM-YYYY or DD/MM/YYYY normalizes to
\* the one DD/MM/YYYY string; re-normalizing a non-null result returns it
\* unchanged; a writing in one of the three formats that is no real calendar
\* date gives None.
C7_NormalizeDateEquivalentIdempotent ==
    nd_pc = "done" =>
        /\ \A f \in AcceptedFormats :
              nd_out[f] = IF RealDay(nd_parts)
                          THEN Some(nd_parts.d \o "/" \o nd_parts.m \o "/" \o nd_parts.y)
                          ELSE NoneVal
        /\ \A f \in DateFormats : nd_out[f] # NoneVal => nd_again[f] = nd_out[f]

C7_Witness ==
    /\ nd_pc = "done"
    /\ nd_parts.d = "30" /\ nd_parts.m = "10" /\ nd_parts.y = "2025"
    /\ nd_out["plain"] = Some("30/10/2025")
    /\ nd_out["dash"] = Some("30/10/2025")
    /\ nd_again["dash"] = Some("30/10/2025")

(***************************************************************************)
(* C8                                                                      *)
(***************************************************************************)

TxMonth(t) == ToInt(SubSeq(t.Date, 4, 5))
TxYear(t) == SubSeq(t.Date, 7, Len(t.Date))

\* C8: in the anchor-date parser a transaction's year is the statement year
\* minus one when the statement's declared month is smaller than the
\* transaction's month, and the statement year otherwise.
C8_YearRollback ==
    (lp_kind = "LCL" /\ lp_pc = "done" /\ lp_ctx.mois_num # NoneVal) =>
        \A k \in 1..Len(lp_tx) :
            TxYear(lp_tx[k]) =
                IF ToInt(lp_ctx.mois_num[1]) < TxMonth(lp_tx[k])
                THEN ToString(ToInt(lp_ctx.annee) - 1)
                ELSE lp_ctx.annee

(***************************************************************************)
(* C9                                                                      *)
(***************************************************************************)

\* a line "DD.MM <label> N,CC": two-digit day and month, a label that is not
\* blank and holds no stop keyword, an unsigned amount with two decimals
CaWellFormed(p) ==
    /\ Len(p.d) = 5 /\ AllDigits(SubSeq(p.d, 1, 2)) /\ At(p.d, 3) = "."
    /\ AllDigits(SubSeq(p.d, 4, 5))
    /\ Strip(p.lab) # "" /\ ~AnyKeyword(p.lab, CaSkipKeywords)
    /\ Len(p.amt) >= 4 /\ AllDigits(SubSeq(p.amt, 1, Len(p.amt) - 3))
    /\ At(p.amt, Len(p.amt) - 2) = "," /\ AllDigits(SubSeq(p.amt, Len(p.amt) - 1, Len(p.amt)))

CaExpected(p) ==
    [Date |-> SubSeq(p.d, 1, 2) \o "/" \o SubSeq(p.d, 4, 5) \o "/2025",
     Libelle |-> Strip(p.lab),
     Montant |-> FloatRepr(TRUE, SubSeq(p.amt, 1, Len(p.amt) - 3)
                                 \o SubSeq(p.amt, Len(p.amt) - 1, Len(p.amt)), 0 - 2)]

\* C9: the dot-date parser turns each line "DD.MM <label> N,CC" into exactly
\* one transaction dated DD/MM/2025, labelled with the trimmed text between
\* the two tokens, whose amount is the negated decimal N.CC, cents included.
C9_DotDateLineToTransaction ==
    (/\ lp_kind = "CA" /\ lp_pc = "done"
     /\ \A k \in 1..Len(lp_parts) : CaWellFormed(lp_parts[k])) =>
        lp_tx = [k \in 1..Len(lp_parts) |-> CaExpected(lp_parts[k])]

(***************************************************************************)
(* C5                                                                      *)
(***************************************************************************)

\* the failures the reply harness injects after the key check: the call
\* raises, the reply has no content, no array, malformed JSON, or JSON that
\* json.loads gives up on (too deep, or an int of too many digits)
MiFailure ==
    \/ mi_env.call = "raise"
    \/ mi_reply.kind \in {"nocontent", "noarray", "malformed"}
    \/ mi_reply.kind = "limit" /\ mi_reply.over

\* the call raised a json.JSONDecodeError
MiCallJsonError == mi_env.call = "raise" /\ mi_env.exc = "JSONDecodeError"

\* C5 as stated: every transport, configuration or parsing failure (no API
\* key, failing model call, reply without content, reply with no array,
\* malformed JSON) makes extract_with_mistral return an empty list without
\* raising to its caller.
C5_EveryFailureReturnsEmpty ==
    (mi_pc = "done" /\ (~mi_env.key \/ MiFailure))
        => (~mi_raised /\ mi_ret = <<(<<>>)>>)

\* C5, amended: once the API key is present, every transport or parsing
\* failure returns an empty list without raising, but for a call that raises
\* a json.JSONDecodeError; extract_with_mistral raises to its caller exactly
\* when the API key is missing or the call raises that exception, and then
\* returns nothing.
C5_FailuresWithKeyReturnEmpty ==
    (mi_pc = "done")
        => /\ mi_raised <=> (~mi_env.key \/ MiCallJsonError)
           /\ (mi_env.key /\ MiFailure /\ ~MiCallJsonError) => mi_ret = <<(<<>>)>>
           /\ mi_raised => mi_ret = <<>>

\* a failing model call, with the key present, has returned the empty list
C5_Witness ==
    /\ mi_pc = "done" /\ mi_env.key /\ mi_env.call = "raise"
    /\ mi_env.exc = "Exception"
    /\ mi_ret = <<(<<>>)>> /\ ~mi_raised

(***************************************************************************)
(* C6                                                                      *)
(***************************************************************************)

\* what an item written from its parts denotes on its own: one transaction
\* when it is an object whose three fields denote a date, a label and an
\* amount, nothing otherwise
ExpectedItem(it) ==
    IF /\ it.shape = "obj"
       /\ it.d.val # <<>> /\ it.lab.val # <<>> /\ it.amt.val # <<>>
    THEN <<[Date |-> it.d.val[1], Libelle |-> it.lab.val[1], Montant |-> it.amt.val[1]]>>
    ELSE <<>>

RECURSIVE ExpectedItems(_)
ExpectedItems(items) ==
    IF items = <<>> THEN <<>>
    ELSE ExpectedItem(items[1]) \o ExpectedItems(Tail(items))

\* the call delivered an array, alone, fenced, or inside prose without
\* another bracket
MiArrived ==
    /\ mi_env.key /\ mi_env.call = "ok"
    /\ mi_reply.kind \in {"array", "limit"} /\ mi_reply.wrap # "trailing"

\* the array was delivered and json.loads decodes it
MiDelivered == MiArrived /\ ~mi_reply.over

\* C6: validation is independent per item.  For any reply array, the list
\* returned holds exactly the transactions of the items that are valid on
\* their own, in order, each with its normalized date, trimmed label and
\* numeric amount; an item that fails validation adds nothing and removes
\* nothing.
C6_PerItemValidation ==
    (mi_pc = "done" /\ MiArrived)
        => mi_ret = <<ExpectedItems(mi_reply.items)>>

(***************************************************************************)
(* C1                                                                      *)
(***************************************************************************)

InStages(x) == \E k \in 1..Len(px_stages) : px_stages[k] = x

\* the language-model tier ran and returned at least one transaction
MiNonEmpty == px_mi # <<>> /\ ~px_mi[1].raised /\ Len(px_mi[1].tx) > 0

\* the language-model tier ran and returned an empty list or raised
MiEmpty == px_mi # <<>> /\ (px_mi[1].raised \/ Len(px_mi[1].tx) = 0)

CertasEnv ==
    [key |-> TRUE, call |-> "ok", exc |-> "",
     content |-> Some("[{\"date\": \"30/10/2025\", \"libelle\": \"CERTAS\", \"montant\": -16.62}]"),
     frames |-> PipeFrames]

\* C1: extract_from_pdf commits to the first tier with a non-empty list.
\* When the language-model tier returns at least one transaction, that list
\* is what extract_from_pdf returns, unchanged and tagged MISTRAL_AI, and no
\* layout parser is run; the layout-parser tier is run only after the
\* language-model tier returned an empty list or raised.  For the one-item
\* reply of the specification the list returned is exactly that item.
C1_CommitToFirstNonEmptyTier ==
    /\ MiNonEmpty
          => /\ ~InStages("regex") /\ px_re = <<>>
             /\ px_ret = <<[raised |-> FALSE, tx |-> px_mi[1].tx, tag |-> "MISTRAL_AI"]>>
    /\ InStages("regex") => MiEmpty
    /\ (InStages("mistral") /\ px_llm = CertasEnv)
          => px_ret = <<[raised |-> FALSE,
                         tx |-> <<[Date |-> Text("30/10/2025"),
                                   Libelle |-> Text("CERTAS"),
                                   Montant |-> "-16.62"]>>,
                         tag |-> "MISTRAL_AI"]>>

\* on a statement the CA layout parser reads, the language-model list has
\* been returned and the layout parser was not run
C1_Witness ==
    /\ px_pc = "done" /\ px_doc.pages = <<TextCA>>
    /\ MiNonEmpty /\ ~InStages("regex")
    /\ px_ret[1].tag = "MISTRAL_AI"
    /\ Len(extract_ca_transactions(SplitLines(TextCA))) > 0

(***************************************************************************)
(* C2                                                                      *)
(***************************************************************************)

\* what the validator reports on the document of this request
DocVerdict == validate_statement(NativeText(px_doc.pages))

\* C2: whenever the validator reports the document incompatible (scanned or
\* bank not supported), no parser tier is attempted for it, neither the
\* language-model extractor nor a layout parser, on the authenticated upload
\* and on the guest upload alike.
C2_IncompatibleNeverReachesTiers ==
    (px_pc # "idle" /\ px_doc.opens /\ (InStages("mistral") \/ InStages("regex")))
        => DocVerdict.compatible

(***************************************************************************)
(* C3                                                                      *)
(***************************************************************************)

PipeTags == {"ERROR", "MISTRAL_AI"} \cup LayoutBanks

\* C3: extract_from_pdf never raises.  Whatever fails inside a stage (the
\* document cannot be opened, a page cannot be read, recognition raises, the
\* language-model call raises or has no API key, a layout parser raises),
\* what comes back is a (transactions, tag) pair.  A failure of recognition
\* alone leaves the native text in place, so that with enough native text
\* the language-model tier still runs; a failure of the language-model tier
\* alone lets the layout-parser tier run.
C3_NeverRaises ==
    /\ px_pc = "returned" => px_ret # <<>>
    /\ (px_pc = "done" /\ (px_entry = "guest" \/ px_stages # <<>>)) => px_ret # <<>>
    /\ px_ret # <<>>
          => /\ ~px_ret[1].raised
             /\ px_ret[1].tag \in PipeTags
    /\ (px_ret # <<>> /\ NativeRaises(px_doc))
          => px_ret = <<[raised |-> FALSE, tx |-> <<>>, tag |-> "ERROR"]>>
    /\ (px_ret # <<>> /\ InStages("ocr") /\ px_ocr.raises
            /\ Len(Strip(NativeText(px_doc.pages))) >= MinTextLength)
          => InStages("mistral")
    /\ (px_ret # <<>> /\ InStages("mistral")
            /\ (~px_llm.key \/ px_llm.call = "raise"))
          => (px_mi[1].raised \/ px_mi[1].tx = <<>>) /\ InStages("regex")

\* recognition raised, the API key is missing and the layout parser raised:
\* every stage ran and the pair ([], "ERROR") came back
C3_Witness ==
    /\ px_pc = "done" /\ px_ocr.raises /\ ~px_llm.key /\ px_fault
    /\ px_stages = <<"native", "ocr", "mistral", "regex">>
    /\ px_re[1].raised
    /\ px_ret = <<[raised |-> FALSE, tx |-> <<>>, tag |-> "ERROR"]>>

(***************************************************************************)
(* C4                                                                      *)
(***************************************************************************)

\* the layout-parser tier ran and gave no transaction
ReEmpty == px_re # <<>> /\ Len(px_re[1].tx) = 0

\* C4: when the language-model tier and the layout-parser tier both yield
\* no transaction, extract_from_pdf returns the empty list with the tag
\* ERROR; an empty list always carries ERROR, and a non-empty list returned
\* is the list one of the two tiers produced.
C4_BothEmptyIsError ==
    px_ret # <<>>
        => /\ (MiEmpty /\ ReEmpty)
                 => px_ret = <<[raised |-> FALSE, tx |-> <<>>, tag |-> "ERROR"]>>
           /\ Len(px_ret[1].tx) = 0 <=> px_ret[1].tag = "ERROR"
           /\ Len(px_ret[1].tx) > 0
                 => \/ MiNonEmpty /\ px_ret[1].tx = px_mi[1].tx
                    \/ px_re # <<>> /\ px_ret[1].tx = px_re[1].tx

\* a CA statement without operation lines and an empty reply array: both
\* tiers ran, both were empty, and ([], "ERROR") came back
C4_Witness ==
    /\ px_pc = "done" /\ px_doc.pages = <<TextCANoLines>>
    /\ px_llm.key /\ px_llm.content = Some("[]")
    /\ InStages("mistral") /\ InStages("regex")
    /\ px_re[1].bank = "CA" /\ ~px_re[1].raised
    /\ px_ret = <<[raised |-> FALSE, tx |-> <<>>, tag |-> "ERROR"]>>

(***************************************************************************)
(* C10                                                                     *)
(***************************************************************************)

\* the Transaction invariant on a record whose date reads D/M/Y: day and
\* month in range, label non-empty after trimming (the amount of a record
\* of the model is always a float)
TransactionOk(t) ==
    LET sl == {i \in 0..(Len(t.Date) - 1) : Ch(t.Date, i) = "/"}
        a == Least(sl)
        dd == Slice(t.Date, 0, a)
        mm == Slice(t.Date, a + 1, a + 3)
    IN  /\ sl # {}
        /\ AllDigits(dd) /\ ToInt(dd) >= 1 /\ ToInt(dd) <= 31
        /\ AllDigits(mm) /\ ToInt(mm) >= 1 /\ ToInt(mm) <= 12
        /\ Strip(t.Libelle) # ""

\* C10: every transaction of a non-empty result of extract_from_pdf,
\* whichever tier produced it, has a date with day and month in range, a
\* label that is non-empty after trimming, and a numeric amount.
C10_TransactionInvariant ==
    px_ret # <<>>
        => \A k \in 1..Len(px_ret[1].tx) :
              IF px_ret[1].tag = "MISTRAL_AI"
              THEN TransactionOk([Date |-> FoldDigits(px_ret[1].tx[k].Date),
                                  Libelle |-> Shown(px_ret[1].tx[k].Libelle)])
              ELSE TransactionOk(px_ret[1].tx[k])

(***************************************************************************)
(* C11                                                                     *)
(***************************************************************************)

\* the rows of the harness whose components name a real calendar day, in
\* input order, with the date as the sheet shows it
ExValidRows ==
    LET kept == SelectSeq(ex_parts, RealDay)
    IN  [k \in 1..Len(kept) |->
            [ExRow(kept[k]) EXCEPT
                !.Date = ZFill2(kept[k].d) \o "/" \o kept[k].m \o "/" \o kept[k].y]]

\* C11: generate_excel drops exactly the rows whose date is no valid
\* day/month/year date and keeps the others in input order, so the sheet has
\* as many rows as the input has valid-date rows; the result is None when
\* the input is empty or every row is dropped.
C11_ExcelDropsInvalidDates ==
    ex_pc = "done" =>
        ex_out = IF ExValidRows = <<>> THEN NoneVal ELSE <<ExValidRows>>

(***************************************************************************)
(* C12                                                                     *)
(***************************************************************************)

\* what each block of the harness contributes: its characters (the final
\* line break included), its words of three or more letters, its keywords
ScanBlockChars(b) ==
    CASE b = "prose" -> 227 [] b = "kw2" -> 17 [] b = "kw1" -> 14 [] b = "empty" -> 0

ScanBlockWords(b) ==
    CASE b = "prose" -> 26 [] b = "kw2" -> 2 [] b = "kw1" -> 2 [] b = "empty" -> 0

ScanBlockKeywords(b) ==
    CASE b = "prose" -> {} [] b = "kw2" -> {"RELEVE", "COMPTE"}
      [] b = "kw1" -> {"BANQUE"} [] b = "empty" -> {}

\* the blocks of the first three pages
ScanFirst == SubSeq(sc_parts, 1, IF Len(sc_parts) < 3 THEN Len(sc_parts) ELSE 3)

RECURSIVE SumOver(_, _)
SumOver(f, blocks) ==
    IF blocks = <<>> THEN 0 ELSE f[Head(blocks)] + SumOver(f, Tail(blocks))

\* characters of the first three pages, the final line break stripped
ScanChars ==
    LET n == SumOver([b \in ScanBlocks |-> ScanBlockChars(b)], ScanFirst)
    IN  IF n = 0 THEN 0 ELSE n - 1

ScanWords == SumOver([b \in ScanBlocks |-> ScanBlockWords(b)], ScanFirst)

ScanKeywords == UNION {ScanBlockKeywords(ScanFirst[k]) : k \in 1..Len(ScanFirst)}

\* C12: is_scanned_pdf decides in this order: fewer than 200 characters in
\* the first 3 pages is scanned whatever keywords the text holds; otherwise
\* fewer than 50 words of 3 or more letters is scanned; otherwise 2 or more
\* distinct domain keywords is not scanned; otherwise scanned.
C12_ScanDecisionOrder ==
    (/\ sc_pc = "done" /\ sc_doc.opens /\ sc_parts # <<>>
     /\ (sc_doc.bad = {} \/ Len(sc_parts) > 3)) =>
        sc_out[1] = IF ScanChars < 200 THEN TRUE
                    ELSE IF ScanWords < 50 THEN TRUE
                    ELSE IF Cardinality(ScanKeywords) >= 2 THEN FALSE
                    ELSE TRUE

\* a text of 200 characters or more with two keywords and too few words is
\* scanned
C12_Witness ==
    /\ sc_pc = "done"
    /\ sc_parts = <<"prose", "kw2">> /\ sc_doc.bad = {}
    /\ sc_out = <<TRUE>>


(***************************************************************************)
(* C13                                                                     *)
(***************************************************************************)

\* C13: extract_text_from_pdf raises no exception; a page without text is
\* skipped and a document that cannot be read gives the empty string.
C13_ExtractTextNeverRaises ==
    px_val # <<>> =>
        /\ ~px_val[1].raised
        /\ ~px_doc.opens => px_val[1].text = ""

(***************************************************************************)
(* C14                                                                     *)
(***************************************************************************)

\* the error type upload_pdf holds for the document of this request
UploadErrorType == ErrorType(px_val[1].result)

\* upload_pdf was told that the document is not compatible
ToldIncompatible ==
    px_val # <<>> /\ ~px_val[1].raised /\ ~px_val[1].result.compatible

\* C14: in upload_pdf, for a document the validator reports incompatible, a
\* failed-conversion record is stored exactly when the error type is not
\* the scanned one, the Discord alert is sent exactly when the error type
\* is BANK_NOT_SUPPORTED and only after the record has been committed, and
\* a scanned document triggers neither.
C14_FailureRecordAndAlert ==
    /\ px_log \in {<<>>, <<"failed_conversion">>, <<"failed_conversion", "discord">>}
    /\ (px_pc = "done" /\ ToldIncompatible)
          => /\ (px_log # <<>>) <=> (UploadErrorType # "SCANNED_PDF")
             /\ (Len(px_log) = 2) <=> (UploadErrorType = "BANK_NOT_SUPPORTED")
             /\ px_resp = UploadErrorType
    /\ ~ToldIncompatible => px_log = <<>>

\* a document reported with the error type UNREADABLE is recorded and no
\* alert is sent for it
C14_Witness ==
    /\ px_pc = "done" /\ px_entry = "upload" /\ ToldIncompatible
    /\ UploadErrorType = "UNREADABLE"
    /\ px_log = <<"failed_conversion">>
    /\ px_resp = "UNREADABLE"

(***************************************************************************)
(* C15                                                                     *)
(***************************************************************************)

\* the bank a fragment of the harness names
FragmentBank(f) ==
    CASE f \in {"Credit Agricole"} -> "CA"
      [] f \in {"banque populaire"} -> "BP"
      [] f \in {"Credit Lyonnais", "lcl"} -> "LCL"
      [] f \in {"Société Générale"} -> "SG"
      [] f \in {"BNP Paribas"} -> "BNP"
      [] OTHER -> "UNKNOWN"

\* the signatures in the order detect_bank_format tries them
BankOrder == <<"CA", "BP", "LCL", "SG", "BNP">>

BanksNamed == {FragmentBank(bk_parts[k]) : k \in 1..Len(bk_parts)}

\* C15: bank detection selects the first signature, in order, that has a
\* keyword in the upper-cased text, however many keywords of later
\* signatures the text holds; with no signature matched the result is
\* UNKNOWN.
C15_FirstSignatureInOrder ==
    bk_pc = "done" =>
        bk_out = IF \E k \in 1..Len(BankOrder) : BankOrder[k] \in BanksNamed
                 THEN BankOrder[Least({k \in 1..Len(BankOrder) : BankOrder[k] \in BanksNamed})]
                 ELSE "UNKNOWN"

\* two keywords of a later signature do not outweigh one of an earlier one
C15_Witness ==
    /\ bk_pc = "done"
    /\ bk_parts = <<"lcl", "Credit Lyonnais", "banque populaire">>
    /\ bk_out = "BP"

(***************************************************************************)
(* C16                                                                     *)
(***************************************************************************)

\* C16: in extract_from_pdf optical recognition runs exactly when the scan
\* detector classifies the document as scanned or the native text has fewer
\* than 100 characters, and it runs before any parser tier.
C16_OcrIffScannedOrNearEmpty ==
    /\ (InStages("native") /\ px_pc # "ocr")
          => (InStages("ocr")
                <=> (\/ is_scanned_pdf(px_doc)
                     \/ Len(Strip(NativeText(px_doc.pages))) < 100))
    /\ \A k \in 1..Len(px_stages) :
          px_stages[k] = "ocr" =>
              \A j \in 1..k : px_stages[j] \notin {"mistral", "regex"}


(***************************************************************************)
(* C17                                                                     *)
(***************************************************************************)

\* C17: extract_with_mistral removes the code fences of the reply and takes
\* the first bracket-delimited array: when the reply holds a valid JSON
\* array followed by further text that itself contains a closing bracket,
\* the transactions of that first array are still returned.
C17_FirstArrayTaken ==
    (/\ mi_pc = "done" /\ mi_env.key /\ mi_env.call = "ok"
     /\ mi_reply.kind = "array" /\ mi_reply.wrap = "trailing")
        => mi_ret = <<ExpectedItems(mi_reply.items)>>


(***************************************************************************)
(* C18                                                                     *)
(***************************************************************************)

\* C18: every layout parser drops a candidate whose trimmed label has fewer
\* than 3 characters, so no transaction of a layout parser has a label
\* shorter than 3 characters.
C18_LabelAtLeastThree ==
    \A k \in 1..Len(lp_tx) : Len(lp_tx[k].Libelle) >= 3

(***************************************************************************)
(* C19                                                                     *)
(***************************************************************************)

\* the stop keywords of the parser that runs
LayoutSkipKeywords ==
    CASE lp_kind = "CA" -> CaSkipKeywords
      [] lp_kind = "BP" -> BpSkipKeywords
      [] OTHER -> LclSkipKeywords

\* the 1-based position in lp_lines of the line at 0-based position j of the
\* list the loop runs over (the anchor-date parser loops over the lines
\* after the header, which the harness writes first)
LayoutLinePos(j) == IF lp_kind = "LCL" THEN j + 2 ELSE j + 1

\* C19: no layout parser takes a part of a transaction from a line that
\* holds one of its stop keywords, the following line read for the amount
\* included; the anchor-date parser takes none from a line outside the
\* section between the PAIEMENTS PAR CARTE header and the next TOTAUX line,
\* and returns nothing without a header.
C19_NoPartFromStopLine ==
    /\ \A k \in 1..Len(lp_src) : \A j \in lp_src[k] :
          ~AnyKeyword(lp_lines[LayoutLinePos(j)], LayoutSkipKeywords)
    /\ lp_kind = "LCL" =>
          /\ \A k \in 1..Len(lp_src) : \A j \in lp_src[k] :
                /\ Contains(Upper(lp_lines[1]), "PAIEMENTS PAR CARTE")
                /\ \A n \in 2..LayoutLinePos(j) : ~Contains(Upper(lp_lines[n]), "TOTAUX")
          /\ ~Contains(Upper(lp_lines[1]), "PAIEMENTS PAR CARTE") => lp_tx = <<>>

(***************************************************************************)
(* C20                                                                     *)
(***************************************************************************)

\* the anchor lines of the harness without an amount at their end, and the
\* amount each line of the harness begins with
LclBareAnchors == {"LE 15/01 AUCHAN"}

LclLeadingAmount(line) ==
    CASE line = "7,20 EUR" -> <<"7.2">>
      [] line = "9,99 DEBIT" -> <<"9.99">>
      [] OTHER -> <<>>

\* the loop is at an anchor line without an amount of its own
LclAtBareAnchor ==
    /\ lp_kind = "LCL" /\ lp_pc = "loop" /\ lp_i < Len(lp_ctx.tl)
    /\ lp_ctx.tl[lp_i + 1] \in LclBareAnchors

\* what follows the anchor line in the section, "" at its end
LclLineAfter == IF lp_i + 1 < Len(lp_ctx.tl) THEN lp_ctx.tl[lp_i + 2] ELSE ""

\* C20: in the anchor-date parser an anchor line "LE DD/MM" without an
\* amount at its end gives a transaction exactly when the next line begins
\* with an amount; the label is then the whole trimmed anchor line and the
\* amount line is passed over, never parsed as a candidate of its own; with
\* no amount on either line the anchor line is skipped and the transactions
\* stay as they were.
C20_AnchorTakesNextLineAmount ==
    [][ (LclAtBareAnchor /\ lp_i' # lp_i) =>
          IF LclLeadingAmount(LclLineAfter) # <<>>
          THEN /\ Len(lp_tx') = Len(lp_tx) + 1
               /\ SubSeq(lp_tx', 1, Len(lp_tx)) = lp_tx
               /\ lp_tx'[Len(lp_tx')].Libelle = lp_ctx.tl[lp_i + 1]
               /\ lp_tx'[Len(lp_tx')].Montant = "-" \o LclLeadingAmount(LclLineAfter)[1]
               /\ SubSeq(lp_tx'[Len(lp_tx')].Date, 1, 6) = "15/01/"
               /\ lp_i' = lp_i + 2
          ELSE lp_tx' = lp_tx /\ lp_i' = lp_i + 1 ]_vars

C20_Witness ==
    /\ lp_kind = "LCL" /\ lp_pc = "done"
    /\ lp_lines = <<"PAIEMENTS PAR CARTE DE JANVIER 2025", "LE 15/01 AUCHAN", "7,20 EUR">>
    /\ lp_tx = <<[Date |-> "15/01/2025", Libelle |-> "LE 15/01 AUCHAN",
                  Montant |-> "-7.2"]>>
    /\ lp_i = 2

\* ---------------------------------------------------------------------
\* C21
\* ---------------------------------------------------------------------

\* C21: every transaction a layout parser returns has an amount that is
\* zero or negative, whatever sign or marker stands on the line it was read
\* from: the dot-date, concatenated-date and anchor-date parsers store the
\* amount they read with a minus sign.
C21_AmountsNonPositive ==
    \A k \in 1..Len(lp_tx) : FloatLeZero(lp_tx[k].Montant)

\* a dot-date line whose amount is written with a minus sign has been parsed
C21_Witness ==
    /\ lp_kind = "CA" /\ lp_pc = "done"
    /\ lp_lines = <<"15.03 BOULANGERIE PARIS -7,05">>
    /\ lp_tx = <<[Date |-> "15/03/2025", Libelle |-> "BOULANGERIE PARIS",
                  Montant |-> "-7.0"]>>

(***************************************************************************)
(* Harness for ocr_utils.extract_text_from_scanned_pdf: a document is      *)
(* rasterized and each page image is preprocessed and read                 *)
(***************************************************************************)

MaxScanPages == 2

\* what a page image shows
ScanContents == {"RELEVE LCL", "LE 15/01 AUCHAN 12,50"}

\* a page of the document: what it shows, and whether a step of
\* preprocess_image or pytesseract.image_to_string raises on it
ScanPageFaults ==
    [content : ScanContents, pre_fails : BOOLEAN, rec_fails : BOOLEAN]

\* images = convert_from_bytes(pdf_bytes, dpi=300, fmt='png')
Rasterize(scan) ==
    [k \in 1..Len(scan.pages) |-> [content |-> scan.pages[k].content, binary |-> FALSE]]

\* preprocess_image: the binarized image, or the image it was given when a
\* step raises
preprocess_image(image, fails) ==
    IF fails THEN image ELSE [image EXCEPT !.binary = TRUE]

\* raise Exception("Erreur lors de l'OCR: ...")
OcrRaised == [raised |-> TRUE, text |-> ""]

RECURSIVE OcrPages(_, _, _)
\* the for loop from page k on, with the texts read so far
OcrPages(scan, k, texts) ==
    IF k > Len(scan.pages) THEN [raised |-> FALSE, text |-> JoinPages(texts)]
    ELSE LET page == scan.pages[k]
             processed_image == preprocess_image(Rasterize(scan)[k], page.pre_fails)
         IN  IF page.rec_fails THEN OcrRaised
             ELSE OcrPages(scan, k + 1, Append(texts, processed_image.content))

extract_text_from_scanned_pdf(scan) ==
    IF scan.raster_fails THEN OcrRaised ELSE OcrPages(scan, 1, <<>>)

OcrInit ==
    /\ oc_scan \in [raster_fails : BOOLEAN,
                    pages : SeqsUpTo(ScanPageFaults, MaxScanPages)]
    /\ oc_i = 0
    /\ oc_seen = <<>>
    /\ oc_texts = <<>>
    /\ oc_ret = <<>>
    /\ oc_pc = "start"

\* convert_from_bytes and extracted_texts = []
OcrRasterize ==
    /\ oc_pc = "start"
    /\ IF oc_scan.raster_fails
       THEN oc_ret' = <<OcrRaised>> /\ oc_pc' = "done"
       ELSE oc_ret' = oc_ret /\ oc_pc' = "loop"
    /\ UNCHANGED <<oc_scan, oc_i, oc_seen, oc_texts>>
    /\ UNCHANGED notOcr

\* one iteration of the for loop: preprocess_image, image_to_string, append
OcrPage ==
    /\ oc_pc = "loop" /\ oc_i < Len(oc_scan.pages)
    /\ LET page == oc_scan.pages[oc_i + 1]
           processed_image == preprocess_image(Rasterize(oc_scan)[oc_i + 1], page.pre_fails)
       IN  /\ oc_seen' = Append(oc_seen, processed_image)
           /\ IF page.rec_fails
              THEN /\ oc_ret' = <<OcrRaised>>
                   /\ oc_pc' = "done"
                   /\ UNCHANGED <<oc_i, oc_texts>>
              ELSE /\ oc_texts' = Append(oc_texts, processed_image.content)
                   /\ oc_i' = oc_i + 1
                   /\ UNCHANGED <<oc_ret, oc_pc>>
    /\ UNCHANGED oc_scan
    /\ UNCHANGED notOcr

\* full_text = '\n\n'.join(extracted_texts); return full_text
OcrReturn ==
    /\ oc_pc = "loop" /\ oc_i = Len(oc_scan.pages)
    /\ oc_ret' = <<[raised |-> FALSE, text |-> JoinPages(oc_texts)]>>
    /\ oc_pc' = "done"
    /\ UNCHANGED <<oc_scan, oc_i, oc_seen, oc_texts>>
    /\ UNCHANGED notOcr

OcrNext == OcrRasterize \/ OcrPage \/ OcrReturn

InitOcr ==
    /\ OcrInit /\ DateIdle /\ LayoutIdle /\ MistralIdle /\ PipeIdle
    /\ ExcelIdle /\ ScanIdle /\ BankIdle /\ GuestIdle /\ UsageIdle

SpecOcr == InitOcr /\ [][OcrNext]_vars

(***************************************************************************)
(* C22                                                                     *)
(***************************************************************************)

\* a stage has raised on the document: the rasterization, or the
\* preprocessing or the reading of a page the loop has come to
OcrStageRaised ==
    \/ oc_scan.raster_fails
    \/ \E k \in 1..Len(oc_seen) :
          oc_scan.pages[k].pre_fails \/ oc_scan.pages[k].rec_fails

\* C22: when any stage of optical recognition raises on any page
\* (rasterization, image preprocessing or character recognition),
\* extract_text_from_scanned_pdf raises and returns no text, and no text is
\* read from an image whose preprocessing failed.
C22_AnyStageFailureAborts ==
    /\ (oc_pc = "done" /\ OcrStageRaised) => oc_ret[1] = OcrRaised
    /\ \A k \in 1..Len(oc_texts) : ~oc_scan.pages[k].pre_fails

(***************************************************************************)
(* C23                                                                     *)
(***************************************************************************)

\* extract_text_smart: optical recognition for a document reported as
\* scanned, extract_text_from_pdf for the others
SmartRoute(doc) == IF is_scanned_pdf(doc) THEN "ocr" ELSE "native"

\* the document cannot be opened, or one of the pages is_scanned_pdf reads
\* cannot be read
ScanDocErrors ==
    \/ ~sc_doc.opens
    \/ sc_doc.bad # {} /\ Len(sc_parts) <= 3

\* C23: is_scanned_pdf answers "not scanned" whenever an error occurs while
\* it opens or reads the document, so extract_text_smart sends such a
\* document to native extraction and not to optical recognition.
C23_ErrorMeansNotScanned ==
    (sc_pc = "done" /\ ScanDocErrors) =>
        sc_out = <<FALSE>> /\ SmartRoute(sc_doc) = "native"

\* a single page of prose, which is reported as scanned when it can be read,
\* could not be read
C23_Witness ==
    /\ sc_pc = "done" /\ sc_parts = <<"prose">> /\ sc_doc.bad = {1}
    /\ sc_out = <<FALSE>>
    /\ is_scanned_pdf([sc_doc EXCEPT !.bad = {}])

(***************************************************************************)
(* C24                                                                     *)
(***************************************************************************)

\* the place of a stage in the order of extract_from_pdf
StageRank(stage) ==
    CASE stage = "native" -> 1
      [] stage = "ocr" -> 2
      [] stage = "mistral" -> 3
      [] stage = "regex" -> 4

\* C24: during one extract_from_pdf call the completion call of the
\* language model is made at most once and the optical-recognition step at
\* most once, a failed one is not made again, and the stages run one after
\* another in the order native extraction, optional recognition,
\* language-model tier, layout-parser tier.
C24_StagesOnceInOrder ==
    /\ \A i, j \in 1..Len(px_stages) :
          i < j => StageRank(px_stages[i]) < StageRank(px_stages[j])
    /\ px_mi # <<>> => InStages("mistral")
    /\ px_pc \in {"mistral", "regex"} => InStages("native")
    /\ px_calls.ocr <= 1 /\ px_calls.llm <= 1
    /\ px_calls.ocr = (IF InStages("ocr") THEN 1 ELSE 0)
    /\ px_calls.llm = (IF InStages("mistral") /\ px_llm.key THEN 1 ELSE 0)

\* the recognition and the language-model call both failed and each was
\* made once
C24_Witness ==
    /\ px_pc = "done" /\ px_entry = "guest"
    /\ px_ocr.raises /\ px_llm.call = "raise"
    /\ px_stages = <<"native", "ocr", "mistral", "regex">>
    /\ px_calls = [ocr |-> 1, llm |-> 1]

(***************************************************************************)
(* C25                                                                     *)
(***************************************************************************)

\* the positions, among the first n items of the reply, of the items that
\* are valid on their own
MiKept(n) == {k \in 1..n : ExpectedItem(mi_reply.items[k]) # <<>>}

\* the position of the j-th kept item
MiKeptPos(n, j) ==
    CHOOSE k \in MiKept(n) : Cardinality({i \in MiKept(n) : i <= k}) = j

\* C25: in extract_with_mistral every item of the reply array is either
\* kept or dropped and counted, never both and never neither: after k items
\* the number of transactions plus the rejected count is k, at the return it
\* is the number of items of the array, and the transactions stand in the
\* order of their items in the reply.
C25_KeptOrCounted ==
    /\ Len(mi_tx) + mi_rejected = mi_idx
    /\ mi_idx <= Len(mi_raw)
    /\ (mi_pc = "done" /\ mi_ret # <<>>) =>
          Len(mi_ret[1]) + mi_rejected = Len(mi_raw)
    /\ (mi_pc \in {"loop", "done"} /\ MiDelivered) =>
          /\ Len(mi_tx) = Cardinality(MiKept(mi_idx))
          /\ \A j \in 1..Len(mi_tx) :
                <<mi_tx[j]>> = ExpectedItem(mi_reply.items[MiKeptPos(mi_idx, j)])

\* the first item of a two-item reply was dropped and counted and the second
\* one kept
C25_Witness ==
    /\ mi_pc = "done" /\ MiDelivered
    /\ Len(mi_raw) = 2 /\ mi_rejected = 1
    /\ mi_reply.items[1].shape = "scalar"
    /\ mi_ret = <<(<<[Date |-> Text("31/10/2025"), Libelle |-> Text("CAFE FRANCIS"),
                      Montant |-> "-16.62"]>>)>>

(***************************************************************************)
(* upload_pdf_guest: the requests of one address.  A request runs from its  *)
(* start to await file.read(), where other requests may run, and from      *)
(* there to its response.                                                  *)
(***************************************************************************)

MaxGuests == 2

\* what a request carries: a file that is not a PDF, a PDF from which
\* generate_excel gives no sheet, a statement that converts
GuestFiles == {"notpdf", "nosheet", "statement"}

GuestInit ==
    /\ gu_unique \in BOOLEAN
    /\ \E n \in 1..MaxGuests :
          gu_req \in [1..n -> [pc : {"start"}, file : GuestFiles, resp : {""}]]
    /\ gu_rows = 0

\* check_guest_eligibility: eligible when the address has no row
check_guest_eligibility(rows) == rows = 0

\* lines 421-439: the content type, the query for a row of the address, the
\* 403 when there is one
GuestCheck ==
    \E r \in DOMAIN gu_req :
    /\ gu_req[r].pc = "start"
    /\ gu_req' = [gu_req EXCEPT ![r] =
          IF gu_req[r].file = "notpdf" THEN [@ EXCEPT !.pc = "done", !.resp = "HTTP_400"]
          ELSE IF ~check_guest_eligibility(gu_rows)
               THEN [@ EXCEPT !.pc = "done", !.resp = "HTTP_403"]
          ELSE [@ EXCEPT !.pc = "read"]]
    /\ UNCHANGED <<gu_unique, gu_rows>>
    /\ UNCHANGED notGuest

\* lines 442-468: the file is read and converted; without a sheet a 400 and
\* no row, with one the row is added and committed and the file returned; a
\* table that refuses a second row of the address fails the commit
GuestConvert ==
    \E r \in DOMAIN gu_req :
    /\ gu_req[r].pc = "read"
    /\ IF gu_req[r].file = "nosheet"
       THEN /\ gu_req' = [gu_req EXCEPT ![r] = [@ EXCEPT !.pc = "done", !.resp = "HTTP_400"]]
            /\ gu_rows' = gu_rows
       ELSE IF gu_unique /\ gu_rows > 0
       THEN /\ gu_req' = [gu_req EXCEPT ![r] = [@ EXCEPT !.pc = "done", !.resp = "HTTP_500"]]
            /\ gu_rows' = gu_rows
       ELSE /\ gu_req' = [gu_req EXCEPT ![r] = [@ EXCEPT !.pc = "done", !.resp = "excel"]]
            /\ gu_rows' = gu_rows + 1
    /\ UNCHANGED gu_unique
    /\ UNCHANGED notGuest

GuestNext == GuestCheck \/ GuestConvert

InitGuest ==
    /\ GuestInit /\ DateIdle /\ LayoutIdle /\ MistralIdle /\ PipeIdle
    /\ ExcelIdle /\ ScanIdle /\ BankIdle /\ OcrIdle /\ UsageIdle

SpecGuest == InitGuest /\ [][GuestNext]_vars

(***************************************************************************)
(* C26                                                                     *)
(***************************************************************************)

\* the requests that returned an Excel file
GuestServed == {r \in DOMAIN gu_req : gu_req[r].resp = "excel"}

\* C26: an address obtains at most one successful guest conversion: after
\* any sequence or interleaving of its upload-guest requests, two of them in
\* flight while the file is read included, at most one returned an Excel
\* file and at most one GuestConversion row exists for it; a request whose
\* conversion gives no Excel file records nothing.
C26_OneConversionPerAddress ==
    /\ Cardinality(GuestServed) <= 1
    /\ gu_rows <= 1
    /\ gu_rows = Cardinality(GuestServed)

(***************************************************************************)
(* upload_pdf and the monthly usage counter: the requests of one user in    *)
(* one process.  A request runs from its start to await file.read(), where  *)
(* other requests and the webhook may run, and from there to its response;  *)
(* only a document of an unsupported bank suspends it once more, at await   *)
(* send_discord_notification, after the FailedConversion row is committed.  *)
(* stripe_webhook writes the plan of the user between two such runs, and    *)
(* report_failed_conversion, the other handler that writes rows of the      *)
(* user, runs between them too.                                             *)
(***************************************************************************)

MaxUploads == 2

MaxReports == 1

MaxPlanChanges == 1

FreeLimit == 5

PremiumLimit == 50

UsageTiers == {"free", "premium", "pro", "trial"}

\* the plans stripe_webhook writes: metadata.get("plan") of a completed
\* checkout as it comes, here premium, pro and a plan the table of limits
\* does not hold; premium or pro for an updated subscription; free for a
\* cancelled one
WebhookPlans == {"premium", "pro", "free", "enterprise"}

\* limits.get(user.subscription_tier, 5): None for 'pro', 5 for a tier that
\* is not in the table
UserLimit(tier) ==
    CASE tier = "free" -> Some(FreeLimit)
      [] tier = "premium" -> Some(PremiumLimit)
      [] tier = "pro" -> NoneVal
      [] OTHER -> Some(FreeLimit)

\* a variant that refuses only above the limit
LimitReachedAbove(user_limit, uploads_count) ==
    /\ user_limit # NoneVal /\ user_limit[1] # 0
    /\ uploads_count > user_limit[1]

\* user_limit and usage.uploads_count >= user_limit
LimitReached(user_limit, uploads_count) ==
    /\ user_limit # NoneVal /\ user_limit[1] # 0
    /\ uploads_count >= user_limit[1]

\* uploads_count of the month's row; a row created by the request starts at 0
CounterValue(count) == IF count = NoneVal THEN 0 ELSE count[1]

\* what a request carries: a file that is not a PDF, one the validation
\* cannot read, a scanned one, one of a bank without parser, one the
\* validator rejects without an error type, a compatible one without
\* transactions, one whose sheet cannot be generated, a statement that
\* converts
UsageFiles ==
    {"notpdf", "unreadable", "scanned", "unsupported", "untyped", "notx", "nosheet",
     "statement"}

\* validation_result.get('error_type', 'UNKNOWN') for a document that is
\* not compatible
UsageErrorType(file) ==
    CASE file = "scanned" -> "SCANNED_PDF"
      [] file = "unsupported" -> "BANK_NOT_SUPPORTED"
      [] OTHER -> "UNKNOWN"

\* database.py is not among the sources: the count a request finds in the
\* row of the month when it queries it at line 572 is the committed one,
\* not the one that was committed when its session was opened
UsageRowRead(committed, at_arrival) == committed

\* the requests of a sequence that are reports
Reports(s) == Cardinality({k \in 1..Len(s) : s[k].file = "report"})

\* the counter at the start: no row, or a row with a count up to the limit
UsageStarts(tier) ==
    LET top == IF UserLimit(tier) = NoneVal THEN PremiumLimit ELSE UserLimit(tier)[1]
    IN  {NoneVal} \cup {Some(n) : n \in (top - MaxUploads)..top}

UsageInit ==
    /\ us_tier \in UsageTiers
    /\ us_hist = <<us_tier>>
    /\ us_count \in UsageStarts(us_tier)
    /\ us_failed = 0
    /\ us_req = <<>>
    /\ us_susp = <<>>
    /\ us_done = <<>>
    /\ us_pc = "wait"

\* a request with its response
Answered(r, resp) == [r EXCEPT !.resp = resp]

\* s without its element at position k
Without(s, k) == SubSeq(s, 1, k - 1) \o SubSeq(s, k + 1, Len(s))

\* the running request ends with a response
UsageEnd(resp) ==
    /\ us_done' = Append(us_done, Answered(us_req, resp))
    /\ us_req' = <<>>
    /\ us_pc' = "wait"

\* lines 489-497: the content type, the row of the user (whose plan the
\* request keeps as it reads it here), then await file.read()
UsageArrive ==
    /\ us_pc = "wait"
    /\ (Len(us_done) - Reports(us_done)) + (Len(us_susp) - Reports(us_susp)) < MaxUploads
    /\ \E f \in UsageFiles, k \in BOOLEAN :
          LET r == [file |-> f, known |-> k,
                    tier |-> IF f # "notpdf" /\ k THEN us_tier ELSE "",
                    found |-> CounterValue(us_count),
                    extracted |-> FALSE, at |-> "read", resp |-> ""]
          IN  IF f = "notpdf"
              THEN us_done' = Append(us_done, Answered(r, "HTTP_400")) /\ us_susp' = us_susp
              ELSE IF ~k
              THEN us_done' = Append(us_done, Answered(r, "HTTP_401")) /\ us_susp' = us_susp
              ELSE us_susp' = Append(us_susp, r) /\ us_done' = us_done
    /\ UNCHANGED <<us_tier, us_hist, us_count, us_failed, us_req, us_pc>>
    /\ UNCHANGED notUsage

\* a suspended request goes on: after file.read() with the validation,
\* after send_discord_notification with the response of lines 547-561 or,
\* for a report, of lines 769-772
UsageResume ==
    /\ us_pc = "wait"
    /\ \E k \in 1..Len(us_susp) :
          /\ us_susp[k].at # "report"
          /\ us_susp' = Without(us_susp, k)
          /\ IF us_susp[k].at = "read"
             THEN us_req' = us_susp[k] /\ us_pc' = "validate" /\ us_done' = us_done
             ELSE /\ us_done' = Append(us_done,
                         Answered(us_susp[k], IF us_susp[k].at = "alert"
                                              THEN "incompatible" ELSE "reported"))
                  /\ us_req' = us_req /\ us_pc' = us_pc
    /\ UNCHANGED <<us_tier, us_hist, us_count, us_failed>>
    /\ UNCHANGED notUsage

\* report_failed_conversion, lines 735-741: the row of the user, then await
\* file.read(); the 401 for an unknown user is raised inside the try and
\* answered as a 500 by lines 777-779
ReportArrive ==
    /\ us_pc = "wait" /\ Reports(us_done) + Reports(us_susp) < MaxReports
    /\ \E k \in BOOLEAN :
          LET r == [file |-> "report", known |-> k, tier |-> "",
                    found |-> CounterValue(us_count),
                    extracted |-> FALSE, at |-> "report", resp |-> ""]
          IN  IF ~k
              THEN us_done' = Append(us_done, Answered(r, "HTTP_500")) /\ us_susp' = us_susp
              ELSE us_susp' = Append(us_susp, r) /\ us_done' = us_done
    /\ UNCHANGED <<us_tier, us_hist, us_count, us_failed, us_req, us_pc>>
    /\ UNCHANGED notUsage

\* report_failed_conversion, lines 742-772: the FailedConversion row is
\* committed, then await send_discord_notification, which suspends the
\* request when a webhook URL is configured
ReportRecord ==
    /\ us_pc = "wait"
    /\ \E k \in 1..Len(us_susp), configured \in BOOLEAN :
          /\ us_susp[k].at = "report"
          /\ us_failed' = us_failed + 1
          /\ IF configured
             THEN /\ us_susp' = Append(Without(us_susp, k),
                                       [us_susp[k] EXCEPT !.at = "report_alert"])
                  /\ us_done' = us_done
             ELSE /\ us_susp' = Without(us_susp, k)
                  /\ us_done' = Append(us_done, Answered(us_susp[k], "reported"))
    /\ UNCHANGED <<us_tier, us_hist, us_count, us_req, us_pc>>
    /\ UNCHANGED notUsage

\* lines 499-568: the validation.  A document that is not compatible is
\* recorded unless it is scanned; for an unsupported bank the request then
\* awaits send_discord_notification, which suspends it when a webhook URL is
\* configured and returns at once when none is
UsageValidate ==
    /\ us_pc = "validate"
    /\ IF us_req.file = "unreadable"
       THEN UsageEnd("HTTP_400") /\ UNCHANGED <<us_failed, us_susp>>
       ELSE IF us_req.file \in {"scanned", "unsupported", "untyped"}
       THEN LET error_type == UsageErrorType(us_req.file)
            IN  /\ us_failed' = us_failed + (IF RecordsFailure(error_type) THEN 1 ELSE 0)
                /\ IF RecordsFailure(error_type) /\ SendsAlert(error_type)
                   THEN \E configured \in BOOLEAN :
                           IF configured
                           THEN /\ us_susp' = Append(us_susp, [us_req EXCEPT !.at = "alert"])
                                /\ us_req' = <<>> /\ us_pc' = "wait"
                                /\ us_done' = us_done
                           ELSE UsageEnd("incompatible") /\ us_susp' = us_susp
                   ELSE UsageEnd("incompatible") /\ us_susp' = us_susp
       ELSE us_pc' = "limit" /\ UNCHANGED <<us_req, us_done, us_failed, us_susp>>
    /\ UNCHANGED <<us_tier, us_hist, us_count>>
    /\ UNCHANGED notUsage

\* lines 570-601: the row of the month and the limit of the plan the request
\* read with the row of the user; the row a refused request has created is
\* not committed
UsageLimit ==
    /\ us_pc = "limit"
    /\ IF LimitReached(UserLimit(us_req.tier),
                       UsageRowRead(CounterValue(us_count), us_req.found))
       THEN UsageEnd("HTTP_403")
       ELSE us_pc' = "extract" /\ UNCHANGED <<us_req, us_done>>
    /\ UNCHANGED <<us_tier, us_hist, us_count, us_failed, us_susp>>
    /\ UNCHANGED notUsage

\* lines 605-612: extract_from_pdf
UsageExtract ==
    /\ us_pc = "extract"
    /\ IF us_req.file = "notx"
       THEN /\ us_done' = Append(us_done, Answered([us_req EXCEPT !.extracted = TRUE],
                                                   "HTTP_400"))
            /\ us_req' = <<>> /\ us_pc' = "wait"
       ELSE /\ us_req' = [us_req EXCEPT !.extracted = TRUE]
            /\ us_pc' = "excel"
            /\ us_done' = us_done
    /\ UNCHANGED <<us_tier, us_hist, us_count, us_failed, us_susp>>
    /\ UNCHANGED notUsage

\* lines 617-621: generate_excel
UsageExcel ==
    /\ us_pc = "excel"
    /\ IF us_req.file = "nosheet" THEN UsageEnd("HTTP_400")
       ELSE us_pc' = "save" /\ UNCHANGED <<us_req, us_done>>
    /\ UNCHANGED <<us_tier, us_hist, us_count, us_failed, us_susp>>
    /\ UNCHANGED notUsage

\* lines 623-651: db.add(new_upload); usage.uploads_count += 1; db.commit()
UsageSave ==
    /\ us_pc = "save"
    /\ UsageEnd("success")
    /\ us_count' = Some(UsageRowRead(CounterValue(us_count), us_req.found) + 1)
    /\ UNCHANGED <<us_tier, us_hist, us_failed, us_susp>>
    /\ UNCHANGED notUsage

\* stripe_webhook, lines 1235, 1275 and 1296: user.subscription_tier is
\* written and committed while no request is running
UsagePlanChange ==
    /\ us_pc = "wait" /\ Len(us_hist) <= MaxPlanChanges
    /\ \E plan \in WebhookPlans :
          /\ us_tier' = plan
          /\ us_hist' = Append(us_hist, plan)
    /\ UNCHANGED <<us_count, us_failed, us_req, us_susp, us_done, us_pc>>
    /\ UNCHANGED notUsage

UsageNext ==
    \/ UsageArrive \/ UsageResume \/ UsageValidate \/ UsageLimit
    \/ UsageExtract \/ UsageExcel \/ UsageSave \/ UsagePlanChange
    \/ ReportArrive \/ ReportRecord

InitUsage ==
    /\ UsageInit /\ DateIdle /\ LayoutIdle /\ MistralIdle /\ PipeIdle
    /\ ExcelIdle /\ ScanIdle /\ BankIdle /\ OcrIdle /\ GuestIdle

SpecUsage == InitUsage /\ [][UsageNext]_vars

(***************************************************************************)
(* C27                                                                     *)
(***************************************************************************)

\* the limit the claim gives for a plan
PlanLimit == [free |-> 5, premium |-> 50]

\* the plan of the user has been the same from the start
PlanFixed == \A k \in 1..Len(us_hist) : us_hist[k] = us_hist[1]

\* a request has just been answered with a successful conversion
JustConverted ==
    /\ Len(us_done') = Len(us_done) + 1
    /\ us_done'[Len(us_done')].resp = "success"

\* C27: in upload_pdf the monthly usage counter goes up by exactly one on
\* each successful conversion and is left as it was by every upload that is
\* rejected or fails; a request that arrives when the counter has reached
\* the limit of the plan (5 for free, 50 for premium) is refused before any
\* extraction, so under a fixed plan the counter never exceeds the limit.
C27_CounterAndLimit ==
    /\ [][ /\ JustConverted => CounterValue(us_count') = CounterValue(us_count) + 1
           /\ ~JustConverted => us_count' = us_count ]_vars
    /\ [](\A k \in 1..Len(us_done) :
            LET d == us_done[k]
            IN  /\ d.resp = "success" => d.file = "statement"
                /\ (d.tier \in DOMAIN PlanLimit /\ d.found >= PlanLimit[d.tier]) =>
                      /\ ~d.extracted /\ d.resp # "success"
                      /\ d.file \in {"notx", "nosheet", "statement"} => d.resp = "HTTP_403")
    /\ []((PlanFixed /\ us_tier \in DOMAIN PlanLimit)
            => CounterValue(us_count) <= PlanLimit[us_tier])

\* a free user at 4 uploads sends two statements that are both in flight
\* while their files are read; the first one converts and the second one is
\* refused without extraction
C27_Witness ==
    /\ us_tier = "free" /\ PlanFixed /\ us_count = <<5>> /\ Len(us_done) = 2
    /\ us_done[1].resp = "success" /\ us_done[1].found = 4
    /\ us_done[2].resp = "HTTP_403" /\ us_done[2].file = "statement"
    /\ us_done[2].found = 4
    /\ ~us_done[2].extracted

(***************************************************************************)
(* C28                                                                     *)
(***************************************************************************)

\* the number of characters of the stripped native text of the document
NativeLength == Len(Strip(NativeText(px_doc.pages)))

\* C28: a document whose native text has at least 50 characters always
\* reaches the parser tiers of extract_from_pdf: the insufficient-text
\* failure is returned only when the native text itself is shorter than 50
\* characters, and the optical-recognition step never leaves the call with
\* less text than native extraction had produced.
C28_FiftyCharsReachTiers ==
    /\ (px_ret # <<>> /\ px_doc.opens /\ NativeLength >= 50) => InStages("mistral")
    /\ InStages("ocr") => Len(Strip(px_text)) >= NativeLength

(***************************************************************************)
(* C29                                                                     *)
(***************************************************************************)

\* the layout code of the institution a hint names
HintInstitution(hint) ==
    CASE hint = "LCL" -> "LCL"
      [] hint = "CREDIT_AGRICOLE" -> "CA"
      [] hint = "BANQUE_POPULAIRE" -> "BP"

\* C29: within one extract_from_pdf call the bank given as a hint to the
\* language-model tier and the bank layout chosen for the layout-parser tier
\* denote the same institution whenever the hint is set, texts that hold
\* keywords of more than one bank included.
C29_HintAgreesWithLayout ==
    (px_hint # <<>> /\ px_hint[1] # NoneVal /\ px_re # <<>>) =>
        HintInstitution(px_hint[1][1]) = px_re[1].bank

(***************************************************************************)
(* C30                                                                     *)
(***************************************************************************)

\* the anchor line of the k-th transaction: the first line it was read from
LclAnchorOf(k) == CHOOSE a \in lp_src[k] : \A b \in lp_src[k] : a <= b

\* each line of the section is read for at most one transaction, there are
\* no more transactions than lines, and the transactions stand in the order
\* of their anchor lines
LclLinesUsedOnce ==
    /\ Len(lp_src) = Len(lp_tx)
    /\ Len(lp_tx) <= Len(lp_ctx.tl)
    /\ lp_i <= Len(lp_ctx.tl)
    /\ \A k \in 1..Len(lp_src) :
          /\ lp_src[k] # {}
          /\ lp_src[k] \subseteq 0..(lp_i - 1)
          /\ LclDateSearch(Strip(lp_ctx.tl[LclAnchorOf(k) + 1])) # <<>>
    /\ \A j, k \in 1..Len(lp_src) :
          j < k => \A a \in lp_src[j], b \in lp_src[k] : a < b

\* C30: the scanning loop of extract_lcl_transactions terminates on every
\* finite list of lines: the line index strictly increases on every
\* iteration and never passes the number of lines, where the loop is left
\* for the return; each line of the section is used by at most one transaction
\* (as its anchor line or as its amount line), so there are never more
\* transactions than lines in the section, and the transactions are in the
\* order of their anchor lines.
C30_LclLoopTerminates ==
    /\ []((lp_kind = "LCL" /\ lp_pc \in {"loop", "done"}) => LclLinesUsedOnce)
    /\ [][(lp_kind = "LCL" /\ lp_pc = "loop" /\ lp_pc' = "loop") =>
            (lp_i < lp_i' /\ lp_i' <= Len(lp_ctx.tl))]_vars
    /\ [][(lp_kind = "LCL" /\ lp_pc = "loop" /\ lp_i >= Len(lp_ctx.tl)) =>
            lp_pc' = "done"]_vars

\* two anchor lines, each with its amount, gave two transactions in the
\* order of the lines
C30_Witness ==
    /\ lp_kind = "LCL" /\ lp_pc = "done"
    /\ lp_ctx.tl = <<"LE 28/12 CARREFOUR 12,50", "LE 3/4 X 1.00">>
    /\ lp_i = 2
    /\ lp_src = <<{0}, {1}>>
    /\ Len(lp_tx) = 2
    /\ lp_tx[1].Libelle = "LE 28/12 CARREFOUR" /\ lp_tx[2].Libelle = "LE 3/4 X"

====
